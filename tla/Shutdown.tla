-------------------------------- MODULE Shutdown --------------------------------
(***************************************************************************)
(* The threads of SmtpManager and ImapManager and the end of the program   *)
(* (smtpmanager.cpp, imapmanager.cpp, main.cpp, ui.cpp).                   *)
(*                                                                         *)
(* The user interface runs on the main thread, which afterwards takes the  *)
(* managers down one after the other.  Until a thread is joined, it may be *)
(* sending, reading or handing a result to the user interface.             *)
(*                                                                         *)
(* The queue of SmtpManager is a deque of libstdc++ with one element to a  *)
(* node (an Action is longer than half a node).  It grows and shrinks at   *)
(* the front, so that only its begin moves, and the main thread pushes     *)
(* without the mutex under which the thread of SmtpManager pops.           *)
(*                                                                         *)
(* client_store_sent is on, and a session has been up (m_OnceConnected).   *)
(***************************************************************************)
EXTENDS Integers, FiniteSets

CONSTANTS
  Msgs,           \* messages that the user may send
  NoMsg,
  MaxRequests     \* bound: requests, and local searches, that the user makes

ASSUME NoMsgAssumption == NoMsg \notin Msgs
ASSUME BoundsAssumption == IsFiniteSet(Msgs) /\ MaxRequests \in Nat

Imap == {"process", "cache", "search"}    \* the threads of ImapManager
Deque == -Cardinality(Msgs) .. 0          \* 0 is the end of the deque

VARIABLES
  main,         \* where the main thread is
  imapSet,      \* Ui::m_ImapManager is not null
  start, slots, \* the begin of SmtpManager::m_Actions, and its memory
  live,         \* slots that hold an object
  pushAt, hand, \* the begin and the message that push_front() is at
  bytes,        \* whether m_Pipe of SmtpManager holds a byte
  smtp,         \* where the thread of SmtpManager is
  popAt,        \* the begin that front() and pop_front() have read
  action,       \* what it performs
  stopped,      \* threads that were told to stop
  pc,           \* where each thread of ImapManager is
  pending,      \* its requests
  uploads,      \* upload actions of ImapManager
  asked,        \* requests and searches made so far
  submitted, settled,  \* history: messages sent; those stored, or failed
  raced,        \* history: a push and a pop have overlapped
  inFlight      \* history: what was going on when the user has quit

deque == <<start, slots, live, pushAt, hand, popAt>>
smtpVars == <<bytes, smtp, action>>
imapVars == <<pc, pending, uploads>>
history == <<submitted, settled, raced, inFlight>>
vars == <<main, imapSet, deque, smtpVars, stopped, imapVars, asked, history>>

Ended == main \in {"done", "crashed", "terminated"}

(* s_Running.                                                              *)
Running == main \in {"ui", "pushing", "constructing", "pushed"}

Init ==
  /\ main = "ui" /\ imapSet = TRUE
  /\ start = 0 /\ slots = [i \in Deque |-> NoMsg] /\ live = {}
  /\ pushAt = 0 /\ hand = NoMsg /\ popAt = 0
  /\ bytes = FALSE /\ smtp = "select" /\ action = NoMsg
  /\ stopped = {}
  /\ pc = [t \in Imap |-> "wait"]
  /\ pending = [t \in Imap |-> 0]
  /\ uploads = {}
  /\ asked = 0
  /\ submitted = {} /\ settled = {}
  /\ raced = FALSE /\ inFlight = FALSE

(* A null pointer, or an object that is no more, has been used.            *)
Crash(overlap) ==
  /\ main' = "crashed"
  /\ raced' = (raced \/ overlap)
  /\ UNCHANGED <<imapSet, deque, smtpVars, stopped, imapVars, asked,
                 submitted, settled, inFlight>>

-----------------------------------------------------------------------------
(* The user interface.                                                     *)

MainAt(label) == main = label
UiStep == UNCHANGED <<imapSet, smtp, popAt, action, stopped, settled, inFlight>>

(* AsyncAction(): push_front() gets a node below the begin ...             *)
AsyncAction(m) ==
  /\ MainAt("ui")
  /\ m \notin submitted
  /\ submitted' = submitted \cup {m}
  /\ hand' = m
  /\ pushAt' = start
  /\ main' = "pushing"
  /\ raced' = (raced \/ smtp = "popping")
  /\ UNCHANGED <<start, slots, live, bytes, imapVars, asked>>
  /\ UiStep

(* ... moves the begin, from where it was or is when it is read again ...  *)
PushStart ==
  /\ MainAt("pushing")
  /\ \E s \in {pushAt, start} : start' = s - 1 /\ pushAt' = s - 1
  /\ raced' = (raced \/ smtp = "popping" \/ start # pushAt)
  /\ main' = "constructing"
  /\ UNCHANGED <<slots, live, hand, bytes, imapVars, asked, submitted>>
  /\ UiStep

(* ... and constructs the element there, before a byte is written.         *)
Construct ==
  /\ MainAt("constructing")
  /\ \E s \in {pushAt, start} :
       /\ slots' = [slots EXCEPT ![s] = hand]
       /\ live' = live \cup {s}
  /\ raced' = (raced \/ smtp = "popping" \/ start # pushAt)
  /\ main' = "pushed"
  /\ UNCHANGED <<start, pushAt, hand, bytes, imapVars, asked, submitted>>
  /\ UiStep

WritePipe ==
  /\ MainAt("pushed")
  /\ bytes' = TRUE
  /\ main' = "ui"
  /\ UNCHANGED <<start, slots, live, pushAt, hand, imapVars, asked, submitted, raced>>
  /\ UiStep

(* A request goes to the cache and to the process thread, a local search   *)
(* to the thread for it.                                                   *)
Ask(threads) ==
  /\ MainAt("ui")
  /\ asked < MaxRequests
  /\ asked' = asked + 1
  /\ pending' = [t \in Imap |-> pending[t] + IF t \in threads THEN 1 ELSE 0]
  /\ UNCHANGED <<main, start, slots, live, pushAt, hand, bytes, pc, uploads,
                 submitted, raced>>
  /\ UiStep

AsyncRequest == Ask({"process", "cache"})
AsyncSearch == Ask({"search"})

(* What may still use the user interface after ResetImapManager(), or keep *)
(* a destructor waiting for longer than it does.                           *)
InFlight ==
  \/ start # 0 \/ smtp \in {"popping", "perform", "handle"}
  \/ \E t \in Imap : pc[t] = "answer"
  \/ \E t \in {"cache", "search"} : pc[t] = "work" \/ pending[t] > 0

Quit ==
  /\ MainAt("ui")
  /\ main' = "quit"
  /\ inFlight' = InFlight
  /\ UNCHANGED <<imapSet, deque, smtpVars, stopped, imapVars, asked,
                 submitted, settled, raced>>

-----------------------------------------------------------------------------
(* main() after Ui::Run().                                                 *)

MainStep(from, to) ==
  /\ main = from
  /\ main' = to
  /\ UNCHANGED <<deque, smtp, action, pc, asked, history>>

(* ResetImapManager(); main() still has a reference.                       *)
ResetImapManager ==
  /\ MainStep("quit", "reset")
  /\ imapSet' = FALSE
  /\ UNCHANGED <<bytes, stopped, pending, uploads>>

(* ~SmtpManager(): told and woken under m_ExitedCondMutex.                 *)
StopSmtp ==
  /\ MainStep("reset", "waitSmtp")
  /\ stopped' = stopped \cup {"smtp"}
  /\ bytes' = TRUE
  /\ UNCHANGED <<imapSet, pending, uploads>>

Told == UNCHANGED <<imapSet, bytes, stopped, pending, uploads>>

(* A wait ends with the notification, or early without one; the join that  *)
(* follows waits for as long as it takes.                                  *)
Notified == \E w \in {<<"waitSmtp", "joinSmtp">>, <<"waitCache", "joinCache">>} :
              MainStep(w[1], w[2]) /\ Told

(* The wait is over before the thread: its object is destroyed joinable.   *)
(* Only the network, or the disk, keeps a thread for that long.            *)
SmtpTimeout == smtp = "perform" /\ MainStep("waitSmtp", "terminated") /\ Told
CacheTimeout == pc["cache"] = "work" /\ MainStep("waitCache", "terminated") /\ Told

JoinSmtp == smtp = "ended" /\ MainStep("joinSmtp", "stopProcess") /\ Told

(* ~ImapManager(): the queues are cleared if their mutex can be had.  The  *)
(* thread is joined in the end, whatever its waits come to.                *)
StopProcess ==
  /\ MainStep("stopProcess", "joinProcess")
  /\ stopped' = stopped \cup {"process"}
  /\ \/ uploads' = {} /\ pending' = [pending EXCEPT !["process"] = 0]
     \/ pc["process"] # "wait" /\ UNCHANGED <<uploads, pending>>
  /\ UNCHANGED <<imapSet, bytes>>

JoinProcess == pc["process"] = "ended" /\ MainStep("joinProcess", "stopCache") /\ Told

Stop(t, from, to) ==
  /\ MainStep(from, to)
  /\ stopped' = stopped \cup {t}
  /\ UNCHANGED <<imapSet, bytes, pending, uploads>>

StopCache == Stop("cache", "stopCache", "waitCache")
JoinCache == pc["cache"] = "ended" /\ MainStep("joinCache", "stopSearch") /\ Told
StopSearch == Stop("search", "stopSearch", "joinSearch")
JoinSearch == pc["search"] = "ended" /\ MainStep("joinSearch", "done") /\ Told

MainEnds ==
  \/ ResetImapManager \/ StopSmtp \/ Notified \/ SmtpTimeout \/ JoinSmtp
  \/ StopProcess \/ JoinProcess
  \/ StopCache \/ CacheTimeout \/ JoinCache \/ StopSearch \/ JoinSearch

-----------------------------------------------------------------------------
(* The thread of SmtpManager.                                              *)

SmtpAt(label) == ~Ended /\ smtp = label
SmtpStep == UNCHANGED <<main, imapSet, stopped, pc, pending, asked, submitted, inFlight>>
SmtpGoes(to) ==
  /\ smtp' = to
  /\ UNCHANGED <<deque, bytes, action, uploads, settled, raced>>
  /\ SmtpStep

(* The end of the outer loop.                                              *)
Loop == IF "smtp" \in stopped THEN "exit" ELSE "select"

(* select() returns at once; all bytes are read.  A timeout changes nothing.*)
Wake ==
  /\ SmtpAt("select")
  /\ bytes
  /\ bytes' = FALSE
  /\ smtp' = "queue"
  /\ UNCHANGED <<deque, action, uploads, settled, raced>>
  /\ SmtpStep

(* Mutant: the queue is not looked at first.                               *)
QueueUntested ==
  /\ SmtpAt("queue")
  /\ SmtpGoes(IF "smtp" \notin stopped THEN "front" ELSE Loop)

Queue ==
  /\ SmtpAt("queue")
  /\ SmtpGoes(IF "smtp" \notin stopped /\ start # 0 THEN "front" ELSE Loop)

(* Mutant: one message is sent for every time the thread is woken.         *)
AgainNever == SmtpAt("again") /\ SmtpGoes(Loop)

(* The inner loop does not look at m_Running.                              *)
Again ==
  /\ SmtpAt("again")
  /\ SmtpGoes(IF start # 0 THEN "front" ELSE Loop)

Pushing == main \in {"pushing", "constructing"}

(* Where no element is, or is no more, the program crashes or takes what   *)
(* the memory has.                                                         *)
Front ==
  /\ SmtpAt("front")
  /\ action' = slots[start]
  /\ popAt' = start
  /\ smtp' = "popping"
  /\ raced' = (raced \/ Pushing)
  /\ UNCHANGED <<start, slots, live, pushAt, hand, bytes, uploads, settled>>
  /\ SmtpStep

FrontCrashes == SmtpAt("front") /\ start \notin live /\ Crash(Pushing)

Pop ==
  /\ SmtpAt("popping")
  /\ \E s \in {popAt, start} : start' = s + 1 /\ live' = live \ {s}
  /\ raced' = (raced \/ Pushing \/ start # popAt)
  /\ smtp' = "perform"
  /\ UNCHANGED <<slots, pushAt, hand, popAt, bytes, action, uploads, settled>>
  /\ SmtpStep

(* PerformAction(): the message is sent ...                                *)
Sent == SmtpAt("perform") /\ SmtpGoes("handle")

(* ... or is not, which goes to m_SmtpErrorResults.                        *)
NotSent ==
  /\ SmtpAt("perform")
  /\ settled' = settled \cup {action}
  /\ smtp' = "again"
  /\ UNCHANGED <<deque, bytes, action, uploads, raced>>
  /\ SmtpStep

(* SmtpResultHandler(): the copy for the sent folder.                      *)
SmtpResultHandler ==
  /\ SmtpAt("handle")
  /\ \/ /\ imapSet
        /\ uploads' = uploads \cup {action}
        /\ smtp' = "again"
        /\ UNCHANGED <<deque, bytes, action, settled, raced>>
        /\ SmtpStep
     \/ ~imapSet /\ Crash(FALSE)

Exit == SmtpAt("exit") /\ SmtpGoes("ended")

Smtp ==
  \/ Wake \/ Queue \/ Again \/ Front \/ FrontCrashes \/ Pop \/ Sent \/ NotSent
  \/ SmtpResultHandler \/ Exit

-----------------------------------------------------------------------------
(* The threads of ImapManager.                                             *)

ImapStep == UNCHANGED <<main, imapSet, deque, smtpVars, stopped, asked,
                        submitted, raced, inFlight>>
ImapGoes(t, from, to) ==
  /\ ~Ended
  /\ pc[t] = from
  /\ pc' = [pc EXCEPT ![t] = to]
  /\ ImapStep

Take(t) ==
  /\ t \notin stopped
  /\ pending[t] > 0
  /\ pending' = [pending EXCEPT ![t] = @ - 1]
  /\ ImapGoes(t, "wait", "work")
  /\ UNCHANGED <<uploads, settled>>

(* Mutant: ResponseHandler() goes on although the user interface is gone.  *)
AnswerAlways(t) ==
  /\ ImapGoes(t, "work", "answer")
  /\ UNCHANGED <<pending, uploads, settled>>

(* ResponseHandler() returns when s_Running is false; SearchHandler() does *)
(* not look at it.                                                         *)
Answer(t) ==
  /\ ImapGoes(t, "work", IF Running \/ t = "search" THEN "answer" ELSE "wait")
  /\ UNCHANGED <<pending, uploads, settled>>

(* Both may ask ImapManager for more, which is left out, by m_ImapManager. *)
Answered(t) ==
  \/ ImapGoes(t, "answer", "wait") /\ UNCHANGED <<pending, uploads, settled>>
  \/ ~Ended /\ pc[t] = "answer" /\ ~imapSet /\ Crash(FALSE)

(* The process thread stores a copy, or does not succeed.                  *)
Upload ==
  /\ "process" \notin stopped
  /\ \E m \in uploads :
       /\ uploads' = uploads \ {m}
       /\ settled' = settled \cup {m}
  /\ ImapGoes("process", "wait", "wait")
  /\ UNCHANGED pending

End(t) ==
  /\ t \in stopped
  /\ ImapGoes(t, "wait", "ended")
  /\ UNCHANGED <<pending, uploads, settled>>

ImapThread(t) == Take(t) \/ Answer(t) \/ Answered(t) \/ End(t)

Over == Ended /\ UNCHANGED vars

Next ==
  \/ \E m \in Msgs : AsyncAction(m)
  \/ PushStart \/ Construct \/ WritePipe
  \/ AsyncRequest \/ AsyncSearch \/ Quit
  \/ MainEnds
  \/ Smtp
  \/ \E t \in Imap : ImapThread(t)
  \/ Upload
  \/ Over

Spec == Init /\ [][Next]_vars

(* Every thread goes on: a send ends, if only by a timeout, and so does    *)
(* what the other threads do.  Nothing makes the user send or quit.        *)
FairSpec ==
  /\ Spec
  /\ WF_vars(PushStart \/ Construct \/ WritePipe \/ MainEnds)
  /\ WF_vars(Smtp)
  /\ \A t \in Imap : WF_vars(ImapThread(t))
  /\ WF_vars(Upload)

-----------------------------------------------------------------------------
MainLabels ==
  {"ui", "pushing", "constructing", "pushed", "quit", "reset", "waitSmtp", "joinSmtp",
   "stopProcess", "joinProcess", "stopCache", "waitCache", "joinCache",
   "stopSearch", "joinSearch", "done", "terminated", "crashed"}

(* Types; the begin of the deque stays within its memory, whatever the     *)
(* unlocked push and the pops make of it, and unless they overlap a message*)
(* is what is performed (AsyncAction(), Process()).                        *)
TypeOK ==
  /\ main \in MainLabels
  /\ imapSet \in BOOLEAN /\ bytes \in BOOLEAN
  /\ raced \in BOOLEAN /\ inFlight \in BOOLEAN
  /\ start \in Deque /\ pushAt \in Deque /\ popAt \in Deque
  /\ slots \in [Deque -> Msgs \cup {NoMsg}]
  /\ live \subseteq Deque
  /\ smtp \in {"select", "queue", "front", "popping", "perform", "handle",
               "again", "exit", "ended"}
  /\ action \in Msgs \cup {NoMsg} /\ hand \in Msgs \cup {NoMsg}
  /\ smtp \in {"perform", "handle"} /\ ~raced => action \in Msgs
  /\ stopped \subseteq Imap \cup {"smtp"}
  /\ pc \in [Imap -> {"wait", "work", "answer", "ended"}]
  /\ pending \in [Imap -> 0 .. MaxRequests]
  /\ asked \in 0 .. MaxRequests
  /\ uploads \subseteq Msgs \cup {NoMsg} /\ settled \subseteq Msgs \cup {NoMsg}
  /\ submitted \subseteq Msgs

(* The program ends of itself, not by a signal or by std::terminate(), if  *)
(* nothing was sent, searched, read from the cache or answered when the    *)
(* user has quit, and if no push has ever overlapped a pop.  Whatever the  *)
(* process thread does meanwhile, with the uploads and requests it has,    *)
(* does no harm (~SmtpManager(), ~ImapManager(), ResponseHandler()).       *)
CleanEnd == main \in {"crashed", "terminated"} => raced \/ inFlight

(* What the user has begun comes to an end.  A message is sent and its     *)
(* copy goes to the server, or one of both is tried in vain, unless a push *)
(* and a pop have overlapped, or the user quits; and who quits gets the    *)
(* program to end: no thread misses that it is to stop, and none waits for *)
(* another that waits for it (AsyncAction(), Process(), the destructors).  *)
EventuallyOver ==
  /\ \A m \in Msgs : m \in submitted ~> (m \in settled \/ raced \/ ~Running)
  /\ main = "quit" ~> Ended
=============================================================================
