------------------------------- MODULE Outgoing -------------------------------
(***************************************************************************)
(* What becomes of a message that the user sends or postpones.  Four       *)
(* parties pass it on: the user interface thread, the thread of            *)
(* SmtpManager, the process thread of ImapManager (here the queue of       *)
(* uploads, the status changes and the results) and the draft and outbox   *)
(* directories, which outlive the process and are shared with other ones.  *)
(*                                                                         *)
(* Messages are composed anew (ComposeDraftUid is 0), and client_store_sent*)
(* is off: neither touches the message itself.                             *)
(***************************************************************************)
EXTENDS OfflineQueue, Sequences

CONSTANTS
  NoMsg,
  DraftsFolder,   \* TRUE if a drafts folder is configured
  MaxDrops,       \* bound: connections that are lost
  MaxFailures     \* bound: sends and uploads that fail

ASSUME NoMsgAssumption == NoMsg \notin Msgs
ASSUME DraftsFolderAssumption == DraftsFolder \in BOOLEAN
ASSUME BoundsAssumption == MaxDrops \in Nat /\ MaxFailures \in Nat

VARIABLES
  outbox, draft,    \* the files of the two queue directories
  proc, readOnly,   \* each process, and its Util::GetReadOnly()
  connected,        \* Status::FlagConnected
  pipe,             \* requests in m_Pipe of the user interface
  todo,             \* requests it has read and not yet performed
  ui,               \* where the user interface thread is
  cur,              \* the message it works on
  hand,             \* queued messages it has popped and not yet submitted
  smtp,             \* m_Actions of SmtpManager
  sending,          \* the action its thread has popped, and how it went
  errors,           \* m_SmtpErrorResults
  uploads,          \* UploadDraft actions of ImapManager
  accepted,         \* history: messages that the user has sent or postponed
  settled,          \* history: messages sent or stored, as nmail was told
  failed,           \* history: messages with a failed try
  gone,             \* history: messages in the memory of an ended process
  drops, failures

files == <<outbox, draft>>
procs == <<proc, readOnly>>
uiVars == <<todo, ui, cur, hand>>
smtpVars == <<smtp, sending>>
history == <<accepted, settled, failed, gone>>
bounds == <<drops, failures>>
vars == <<files, procs, connected, pipe, uiVars, smtpVars, errors, uploads,
          history, bounds>>

(* An SMTP action; queued is m_IsSendCreatedMessage.                       *)
Action == [msg : Msgs, queued : BOOLEAN]

Alive == {p \in Pids : proc[p] \in {"running", "quitting"}}

Init ==
  /\ outbox = {}
  /\ draft = {}
  /\ proc = [p \in Pids |-> "new"]
  /\ readOnly = [p \in Pids |-> FALSE]
  /\ connected = [p \in Pids |-> FALSE]
  /\ pipe = [p \in Pids |-> {}]
  /\ todo = [p \in Pids |-> {}]
  /\ ui = [p \in Pids |-> "idle"]
  /\ cur = [p \in Pids |-> NoMsg]
  /\ hand = [p \in Pids |-> {}]
  /\ smtp = [p \in Pids |-> <<>>]
  /\ sending = [p \in Pids |-> <<>>]
  /\ errors = [p \in Pids |-> <<>>]
  /\ uploads = [p \in Pids |-> <<>>]
  /\ accepted = {} /\ settled = {} /\ failed = {} /\ gone = {}
  /\ drops = 0 /\ failures = 0

(* main(): without the directory lock a process is read-only.              *)
Start(p) ==
  /\ proc[p] = "new"
  /\ proc' = [proc EXCEPT ![p] = "running"]
  /\ \E ro \in BOOLEAN :
       /\ ro \/ \A q \in Alive : readOnly[q]
       /\ readOnly' = [readOnly EXCEPT ![p] = ro]
  /\ UNCHANGED <<files, connected, pipe, uiVars, smtpVars, errors, uploads,
                 history, bounds>>

-----------------------------------------------------------------------------
(* StatusHandler(), called by ImapManager: the flag and the request change *)
(* together under m_Mutex, which IsConnected() takes too.                  *)

StatusStep ==
  UNCHANGED <<files, procs, uiVars, smtpVars, errors, uploads, history,
              failures>>

(* Mutant: the user interface is not told. *)
ConnectSilent(p) ==
  /\ proc[p] = "running"
  /\ ~connected[p]
  /\ connected' = [connected EXCEPT ![p] = TRUE]
  /\ UNCHANGED <<pipe, drops>>
  /\ StatusStep

Connect(p) ==
  /\ proc[p] = "running"
  /\ ~connected[p]
  /\ connected' = [connected EXCEPT ![p] = TRUE]
  /\ pipe' = [pipe EXCEPT ![p] = @ \cup {"connected"}]
  /\ UNCHANGED drops
  /\ StatusStep

Disconnect(p) ==
  /\ proc[p] = "running"
  /\ connected[p]
  /\ drops < MaxDrops
  /\ drops' = drops + 1
  /\ connected' = [connected EXCEPT ![p] = FALSE]
  /\ UNCHANGED pipe
  /\ StatusStep

-----------------------------------------------------------------------------
(* The user interface thread. *)

UiAt(p, label) == proc[p] = "running" /\ ui[p] = label

UiStep == UNCHANGED <<procs, connected, sending, settled, failed, gone, bounds>>

(* Mutant: requests read together with an error are forgotten.             *)
ReturnIdle(p) ==
  /\ ui' = [ui EXCEPT ![p] = "idle"]
  /\ cur' = [cur EXCEPT ![p] = NoMsg]

(* It goes on with the requests it has read, if any.                       *)
Return(p) ==
  /\ ui' = [ui EXCEPT ![p] = IF todo[p] = {} THEN "idle" ELSE "awake"]
  /\ cur' = [cur EXCEPT ![p] = NoMsg]

Begin(p, m, online, offline) ==
  /\ UiAt(p, "idle")
  /\ m \notin accepted
  /\ accepted' = accepted \cup {m}
  /\ cur' = [cur EXCEPT ![p] = m]
  /\ ui' = [ui EXCEPT ![p] = IF connected[p] THEN online ELSE offline]
  /\ UNCHANGED <<files, pipe, todo, hand, smtp, errors, uploads>>
  /\ UiStep

(* SendComposedMessage() and UploadDraftMessage() look at IsConnected()    *)
(* first.  Without a drafts folder postponing is refused with a warning.   *)
SendMessage(p, m) == Begin(p, m, "send", "queue")
PostponeMessage(p, m) == DraftsFolder /\ Begin(p, m, "store", "draft")

Send(p) ==
  /\ UiAt(p, "send")
  /\ smtp' = [smtp EXCEPT ![p] = <<[msg |-> cur[p], queued |-> FALSE]>> \o @]
  /\ Return(p)
  /\ UNCHANGED <<files, pipe, todo, hand, errors, uploads, accepted>>
  /\ UiStep

Queue(p) ==
  /\ UiAt(p, "queue")
  /\ outbox' = Push(outbox, p, cur[p])
  /\ Return(p)
  /\ UNCHANGED <<draft, pipe, todo, hand, smtp, errors, uploads, accepted>>
  /\ UiStep

Store(p) ==
  /\ UiAt(p, "store")
  /\ uploads' = [uploads EXCEPT ![p] = <<cur[p]>> \o @]
  /\ Return(p)
  /\ UNCHANGED <<files, pipe, todo, hand, smtp, errors, accepted>>
  /\ UiStep

QueueDraft(p) ==
  /\ UiAt(p, "draft")
  /\ draft' = Push(draft, p, cur[p])
  /\ Return(p)
  /\ UNCHANGED <<outbox, pipe, todo, hand, smtp, errors, uploads, accepted>>
  /\ UiStep

(* Run() empties the pipe: requests of a kind become one.                  *)
Wake(p) ==
  /\ UiAt(p, "idle")
  /\ pipe[p] # {}
  /\ todo' = [todo EXCEPT ![p] = pipe[p]]
  /\ pipe' = [pipe EXCEPT ![p] = {}]
  /\ ui' = [ui EXCEPT ![p] = "awake"]
  /\ UNCHANGED <<files, cur, hand, smtp, errors, uploads, accepted>>
  /\ UiStep

(* SmtpResultHandlerError(): what to do with the message of r.             *)
AfterError(r) ==
  CASE DraftsFolder /\ r.queued -> "store"
    [] DraftsFolder /\ ~r.queued -> "asking"
    [] ~DraftsFolder /\ ~r.queued -> "queue"
    [] OTHER -> "awake"

(* Mutant: the first request performed is the only one.                    *)
LeftAfterErrorNone(p) == {}

LeftAfterError(p) == todo[p] \ {"error"}

HandleError(p) ==
  /\ UiAt(p, "awake")
  /\ "error" \in todo[p]
  /\ todo' = [todo EXCEPT ![p] = LeftAfterError(p)]
  /\ IF errors[p] = <<>>
     THEN UNCHANGED <<errors, ui, cur>>
     ELSE /\ errors' = [errors EXCEPT ![p] = Tail(@)]
          /\ ui' = [ui EXCEPT ![p] = AfterError(Head(errors[p]))]
          /\ cur' = [cur EXCEPT ![p] =
                       IF AfterError(Head(errors[p])) = "awake"
                       THEN NoMsg
                       ELSE Head(errors[p]).msg]
  /\ UNCHANGED <<files, pipe, hand, smtp, uploads, accepted>>
  /\ UiStep

(* "Save draft (y) or queue send (n)?" *)
Answer(p) ==
  /\ UiAt(p, "asking")
  /\ \E next \in {"store", "queue"} : ui' = [ui EXCEPT ![p] = next]
  /\ UNCHANGED <<files, pipe, todo, cur, hand, smtp, errors, uploads, accepted>>
  /\ UiStep

(* HandleConnected(): the drafts are popped and submitted, then the outbox.*)
HandleConnected(p) ==
  /\ UiAt(p, "awake")
  /\ "error" \notin todo[p]
  /\ todo' = [todo EXCEPT ![p] = {}]
  /\ IF "connected" \in todo[p] /\ connected[p] /\ ~readOnly[p]
     THEN /\ ui' = [ui EXCEPT ![p] = "drafts"]
          /\ hand' = [hand EXCEPT ![p] = Poppable(draft, p, Alive)]
          /\ draft' = Remaining(draft, p, Alive)
     ELSE /\ ui' = [ui EXCEPT ![p] = "idle"]
          /\ UNCHANGED <<hand, draft>>
  /\ UNCHANGED <<outbox, pipe, cur, smtp, errors, uploads, accepted>>
  /\ UiStep

SubmitDraft(p) ==
  /\ UiAt(p, "drafts")
  /\ \E f \in hand[p] :
       /\ hand' = [hand EXCEPT ![p] = @ \ {f}]
       /\ uploads' = [uploads EXCEPT ![p] = <<f.msg>> \o @]
  /\ UNCHANGED <<files, pipe, todo, ui, cur, smtp, errors, accepted>>
  /\ UiStep

PopOutbox(p) ==
  /\ UiAt(p, "drafts")
  /\ hand[p] = {}
  /\ hand' = [hand EXCEPT ![p] = Poppable(outbox, p, Alive)]
  /\ outbox' = Remaining(outbox, p, Alive)
  /\ ui' = [ui EXCEPT ![p] = "outbox"]
  /\ UNCHANGED <<draft, pipe, todo, cur, smtp, errors, uploads, accepted>>
  /\ UiStep

SubmitOutbox(p) ==
  /\ UiAt(p, "outbox")
  /\ IF hand[p] = {}
     THEN /\ ui' = [ui EXCEPT ![p] = "idle"]
          /\ UNCHANGED <<hand, smtp>>
     ELSE /\ UNCHANGED ui
          /\ \E f \in hand[p] :
               /\ hand' = [hand EXCEPT ![p] = @ \ {f}]
               /\ smtp' = [smtp EXCEPT ![p] =
                             <<[msg |-> f.msg, queued |-> TRUE]>> \o @]
  /\ UNCHANGED <<files, pipe, todo, cur, errors, uploads, accepted>>
  /\ UiStep

-----------------------------------------------------------------------------
(* The thread of SmtpManager.  It empties its queue even when the process  *)
(* is quitting, unless it was waiting in select() then.                    *)

SmtpStep ==
  UNCHANGED <<files, procs, connected, uiVars, uploads, accepted, gone, drops>>

SmtpTake(p) ==
  /\ p \in Alive
  /\ sending[p] = <<>>
  /\ smtp[p] # <<>>
  /\ sending' = [sending EXCEPT ![p] =
                   <<[action |-> Head(smtp[p]), status |-> "started"]>>]
  /\ smtp' = [smtp EXCEPT ![p] = Tail(@)]
  /\ UNCHANGED <<pipe, errors, settled, failed, failures>>
  /\ SmtpStep

SmtpAt(p, status) == sending[p] # <<>> /\ Head(sending[p]).status = status

SmtpOk(p) ==
  /\ SmtpAt(p, "started")
  /\ sending' = [sending EXCEPT ![p][1].status = "ok"]
  /\ settled' = settled \cup {Head(sending[p]).action.msg}
  /\ UNCHANGED <<smtp, pipe, errors, failed, failures>>
  /\ SmtpStep

(* The server may have accepted the message all the same.                  *)
SmtpFail(p) ==
  /\ SmtpAt(p, "started")
  /\ failures < MaxFailures
  /\ failures' = failures + 1
  /\ sending' = [sending EXCEPT ![p][1].status = "failed"]
  /\ failed' = failed \cup {Head(sending[p]).action.msg}
  /\ UNCHANGED <<smtp, pipe, errors, settled>>
  /\ SmtpStep

(* SmtpResultHandler(): nothing is left to do with a message that was sent.*)
SmtpDone(p) ==
  /\ SmtpAt(p, "ok")
  /\ sending' = [sending EXCEPT ![p] = <<>>]
  /\ UNCHANGED <<smtp, pipe, errors, settled, failed, failures>>
  /\ SmtpStep

SmtpError(p) ==
  /\ SmtpAt(p, "failed")
  /\ errors' = [errors EXCEPT ![p] = Append(@, Head(sending[p]).action)]
  /\ pipe' = [pipe EXCEPT ![p] = @ \cup {"error"}]
  /\ sending' = [sending EXCEPT ![p] = <<>>]
  /\ UNCHANGED <<smtp, settled, failed, failures>>
  /\ SmtpStep

-----------------------------------------------------------------------------
(* The uploads of ImapManager. *)

UploadStep ==
  UNCHANGED <<outbox, procs, connected, pipe, uiVars, smtpVars, errors,
              accepted, gone, drops>>

UploadOk(p) ==
  /\ connected[p]
  /\ uploads[p] # <<>>
  /\ settled' = settled \cup {Head(uploads[p])}
  /\ uploads' = [uploads EXCEPT ![p] = Tail(@)]
  /\ UNCHANGED <<draft, failed, failures>>
  /\ UploadStep

(* Mutant: a draft that could not be saved is only reported.               *)
UploadFailedReported(p) ==
  /\ uploads[p] # <<>>
  /\ failures < MaxFailures
  /\ failures' = failures + 1
  /\ failed' = failed \cup {Head(uploads[p])}
  /\ uploads' = [uploads EXCEPT ![p] = Tail(@)]
  /\ UNCHANGED <<draft, settled>>
  /\ UploadStep

(* ResultHandler() *)
UploadFailed(p) ==
  /\ uploads[p] # <<>>
  /\ failures < MaxFailures
  /\ failures' = failures + 1
  /\ failed' = failed \cup {Head(uploads[p])}
  /\ draft' = Push(draft, p, Head(uploads[p]))
  /\ uploads' = [uploads EXCEPT ![p] = Tail(@)]
  /\ UNCHANGED settled
  /\ UploadStep

-----------------------------------------------------------------------------
(* The end of a process. *)

(* The messages in the memory of a process that it still has to pass on.   *)
InMemory(p) ==
  ({cur[p]} \ {NoMsg})
    \cup {f.msg : f \in hand[p]}
    \cup {smtp[p][k].msg : k \in 1 .. Len(smtp[p])}
    \cup {errors[p][k].msg : k \in 1 .. Len(errors[p])}
    \cup {uploads[p][k] : k \in 1 .. Len(uploads[p])}
    \cup {sending[p][k].action.msg :
            k \in {j \in 1 .. Len(sending[p]) : sending[p][j].status # "ok"}}

(* Quit(): the user interface ends first, then ~SmtpManager waits.         *)
Quit(p) ==
  /\ UiAt(p, "idle")
  /\ proc' = [proc EXCEPT ![p] = "quitting"]
  /\ UNCHANGED <<files, readOnly, connected, pipe, uiVars, smtpVars, errors,
                 uploads, history, bounds>>

(* The process dies, or has quit: ~SmtpManager waits 5 s at most, and      *)
(* ~ImapManager clears its queue.                                          *)
End(p) ==
  /\ p \in Alive
  /\ proc' = [proc EXCEPT ![p] = "dead"]
  /\ gone' = gone \cup InMemory(p)
  /\ connected' = [connected EXCEPT ![p] = FALSE]
  /\ pipe' = [pipe EXCEPT ![p] = {}]
  /\ todo' = [todo EXCEPT ![p] = {}]
  /\ ui' = [ui EXCEPT ![p] = "idle"]
  /\ cur' = [cur EXCEPT ![p] = NoMsg]
  /\ hand' = [hand EXCEPT ![p] = {}]
  /\ smtp' = [smtp EXCEPT ![p] = <<>>]
  /\ sending' = [sending EXCEPT ![p] = <<>>]
  /\ errors' = [errors EXCEPT ![p] = <<>>]
  /\ uploads' = [uploads EXCEPT ![p] = <<>>]
  /\ UNCHANGED <<files, readOnly, accepted, settled, failed, drops, failures>>

Terminated ==
  /\ \A p \in Pids : proc[p] = "dead"
  /\ UNCHANGED vars

-----------------------------------------------------------------------------
UiThread(p) ==
  \/ Send(p) \/ Queue(p) \/ Store(p) \/ QueueDraft(p)
  \/ Wake(p) \/ HandleError(p) \/ Answer(p)
  \/ HandleConnected(p) \/ SubmitDraft(p) \/ PopOutbox(p) \/ SubmitOutbox(p)

SmtpThread(p) ==
  SmtpTake(p) \/ SmtpOk(p) \/ SmtpFail(p) \/ SmtpDone(p) \/ SmtpError(p)

Upload(p) == UploadOk(p) \/ UploadFailed(p)

Next ==
  \/ \E p \in Pids :
       \/ Start(p) \/ Connect(p) \/ Disconnect(p)
       \/ UiThread(p) \/ SmtpThread(p) \/ Upload(p)
       \/ Quit(p) \/ End(p)
       \/ \E m \in Msgs : SendMessage(p, m) \/ PostponeMessage(p, m)
  \/ Terminated

Spec == Init /\ [][Next]_vars

(* Threads are scheduled, the user answers the prompt, a server is found   *)
(* sooner or later and answers, and a process that quits ends.             *)
Fairness ==
  \A p \in Pids :
    /\ WF_vars(UiThread(p))
    /\ WF_vars(SmtpThread(p))
    /\ WF_vars(Upload(p))
    /\ WF_vars(Connect(p))
    /\ WF_vars(proc[p] = "quitting" /\ End(p))

FairSpec == Spec /\ Fairness

-----------------------------------------------------------------------------
UiTypeOK ==
  /\ pipe \in [Pids -> SUBSET {"error", "connected"}]
  /\ todo \in [Pids -> SUBSET {"error", "connected"}]
  /\ ui \in [Pids -> {"idle", "send", "queue", "store", "draft", "awake",
                     "asking", "drafts", "outbox"}]
  /\ cur \in [Pids -> Msgs \cup {NoMsg}]
  /\ \A p \in Pids :
       /\ cur[p] # NoMsg
            <=> ui[p] \in {"send", "queue", "store", "draft", "asking"}
       /\ hand[p] # {} => ui[p] \in {"drafts", "outbox"}
       /\ todo[p] # {} => ui[p] \notin {"idle", "send", "drafts", "outbox"}

QueuesTypeOK ==
  /\ outbox \in SUBSET File
  /\ draft \in SUBSET File
  /\ hand \in [Pids -> SUBSET File]
  /\ smtp \in [Pids -> Seq(Action)]
  /\ sending \in [Pids -> Seq([action : Action,
                               status : {"started", "ok", "failed"}])]
  /\ \A p \in Pids : Len(sending[p]) <= 1
  /\ errors \in [Pids -> Seq(Action)]
  /\ uploads \in [Pids -> Seq(Msgs)]

TypeOK ==
  /\ UiTypeOK
  /\ QueuesTypeOK
  /\ proc \in [Pids -> {"new", "running", "quitting", "dead"}]
  /\ readOnly \in [Pids -> BOOLEAN]
  /\ connected \in [Pids -> BOOLEAN]
  /\ {accepted, settled, failed, gone} \subseteq SUBSET Msgs
  /\ drops \in 0 .. MaxDrops
  /\ failures \in 0 .. MaxFailures

(* The places of process p that hold a copy of m. *)
CopiesIn(p, m) ==
  {<<"hand", p, f>> : f \in {g \in hand[p] : g.msg = m}}
    \cup {<<"smtp", p, k>> :
            k \in {j \in 1 .. Len(smtp[p]) : smtp[p][j].msg = m}}
    \cup {<<"sending", p, k>> :
            k \in {j \in 1 .. Len(sending[p]) :
                    sending[p][j].action.msg = m /\ sending[p][j].status # "ok"}}
    \cup {<<"errors", p, k>> :
            k \in {j \in 1 .. Len(errors[p]) : errors[p][j].msg = m}}
    \cup {<<"uploads", p, k>> :
            k \in {j \in 1 .. Len(uploads[p]) : uploads[p][j] = m}}

(* The places a message can still go on from. *)
Copies(m) ==
  {<<"outbox", f>> : f \in {g \in outbox : g.msg = m}}
    \cup {<<"draft", f>> : f \in {g \in draft : g.msg = m}}
    \cup {<<"cur", p>> : p \in {q \in Pids : cur[q] = m}}
    \cup UNION {CopiesIn(p, m) : p \in Pids}

(* A message that is passed on between the threads, the directories and    *)
(* the processes is at one place at a time, and at none once nmail has     *)
(* been told that it was sent or stored: it cannot be sent twice, nor sent *)
(* and stored as a draft.                                                  *)
OneCopy ==
  \A m \in Msgs :
    /\ \A c, d \in Copies(m) : c = d
    /\ m \in settled => Copies(m) = {}

(* Unless the process that has it in memory ends, a message that the user  *)
(* has sent or postponed is never dropped, whatever fails on its way, as   *)
(* long as there is a drafts folder (without one, ui.cpp:4373 drops what   *)
(* was queued and could not be sent).                                      *)
NothingLost ==
  DraftsFolder => \A m \in accepted : m \in settled \cup gone \/ Copies(m) # {}

(* A message that was queued because there was no connection does not stay *)
(* behind when the user interface of its process has seen the connection   *)
(* come up, even if that happened between the look at the connection and   *)
(* the queueing.                                                           *)
NotStranded ==
  \A p \in Pids : \A f \in outbox \cup draft :
    (/\ f.pid = p /\ UiAt(p, "idle")
     /\ connected[p] /\ "connected" \notin pipe[p] /\ ~readOnly[p])
      => f.msg \in failed

(* The messages that the user has sent or postponed get sent or stored, or *)
(* a try fails, but for those that a process without write access has      *)
(* queued and those that their process has left in the queue when it ended.*)
EventuallySettled ==
  <>[](\A m \in accepted :
         \/ m \in settled \cup failed \cup gone
         \/ \E f \in outbox \cup draft :
              f.msg = m /\ (readOnly[f.pid] \/ proc[f.pid] = "dead"))

(* A queued message that could not be sent is kept as a draft: it does not *)
(* stay among the errors that the user interface has still to handle.      *)
QueuedNotForgotten ==
  \A m \in Msgs :
    (\E p \in Pids : \E k \in 1 .. Len(errors[p]) :
       errors[p][k] = [msg |-> m, queued |-> TRUE])
      ~> (m \in settled \cup gone \/ Holds(draft, m))

=============================================================================
