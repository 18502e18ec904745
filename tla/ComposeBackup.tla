---------------------------- MODULE ComposeBackup ----------------------------
(***************************************************************************)
(* The local backup of a message while it is composed.  Every process has  *)
(* a user interface thread and, while a message is composed, a backup      *)
(* thread that saves the message to the compose directory once per         *)
(* interval.  When composing ends the user interface stops the thread,     *)
(* which removes the backup.  A process that starts with write access      *)
(* turns the backups of dead processes into queued drafts, and uploads the *)
(* queued drafts when it gets connected.                                   *)
(*                                                                         *)
(* What becomes of the message itself when composing ends is not a matter  *)
(* of this module.                                                         *)
(***************************************************************************)
EXTENDS OfflineQueue, Sequences

CONSTANTS
  NoMsg,         \* nothing is composed
  MaxCrashes,    \* bound: processes that die without quitting
  MaxFailures    \* bound: draft uploads that fail

ASSUME NoMsgAssumption == NoMsg \notin Msgs
ASSUME BoundsAssumption == MaxCrashes \in Nat /\ MaxFailures \in Nat

VARIABLES
  compose,     \* the files of the compose directory
  draft,       \* the files of the draft directory
  proc,        \* how far each process is
  readOnly,    \* Util::GetReadOnly() of each process
  hand,        \* files a process has popped and not yet passed on
  ui,          \* where the user interface thread is
  composing,   \* the message in m_ComposeMessageStr
  backup,      \* where the backup thread is
  running,     \* m_ComposeBackupRunning
  uploads,     \* UploadDraft actions submitted to ImapManager
  server,      \* messages in the drafts folder of the server
  used,        \* history: messages somebody has started to compose
  finished,    \* history: messages whose composing has ended
  orphans,     \* history: messages with a backup whose author crashed
  crashes, failures

threads == <<ui, composing, backup, running>>
history == <<used, finished, orphans>>
vars == <<compose, draft, proc, readOnly, hand, threads, uploads, server,
          history, crashes, failures>>

Alive == {p \in Pids : proc[p] \in {"starting", "recovering", "running"}}

Init ==
  /\ compose = {}
  /\ draft = {}
  /\ proc = [p \in Pids |-> "new"]
  /\ readOnly = [p \in Pids |-> FALSE]
  /\ hand = [p \in Pids |-> {}]
  /\ ui = [p \in Pids |-> "list"]
  /\ composing = [p \in Pids |-> NoMsg]
  /\ backup = [p \in Pids |-> "off"]
  /\ running = [p \in Pids |-> FALSE]
  /\ uploads = [p \in Pids |-> <<>>]
  /\ server = {}
  /\ used = {}
  /\ finished = {}
  /\ orphans = {}
  /\ crashes = 0
  /\ failures = 0

-----------------------------------------------------------------------------
(* Starting: the directory lock, and OfflineQueue::Init. *)

(* main(): without the lock the process exits, or goes on with read-only access;   *)
(* -ro asks for that in the first place.                                   *)
Start(p) ==
  /\ proc[p] = "new"
  /\ proc' = [proc EXCEPT ![p] = "starting"]
  /\ \E ro \in BOOLEAN :
       /\ ro \/ \A q \in Alive : readOnly[q]
       /\ readOnly' = [readOnly EXCEPT ![p] = ro]
  /\ UNCHANGED <<compose, draft, hand, threads, uploads, server, history,
                 crashes, failures>>

(* Mutant: backups are popped and not pushed as drafts. *)
InitQueueDiscard(p) ==
  /\ proc[p] = "starting"
  /\ proc' = [proc EXCEPT ![p] = "running"]
  /\ compose' = IF readOnly[p] THEN compose ELSE Remaining(compose, p, Alive)
  /\ UNCHANGED <<hand, draft, readOnly, threads, uploads, server, history,
                 crashes, failures>>

(* Init(): with write access the backups are popped, Recover pushes them.  *)
InitQueue(p) ==
  /\ proc[p] = "starting"
  /\ IF readOnly[p]
     THEN /\ proc' = [proc EXCEPT ![p] = "running"]
          /\ UNCHANGED <<compose, hand>>
     ELSE /\ proc' = [proc EXCEPT ![p] = "recovering"]
          /\ hand' = [hand EXCEPT ![p] = Poppable(compose, p, Alive)]
          /\ compose' = Remaining(compose, p, Alive)
  /\ UNCHANGED <<draft, readOnly, threads, uploads, server, history, crashes,
                 failures>>

Recover(p) ==
  /\ proc[p] = "recovering"
  /\ IF hand[p] = {}
     THEN /\ proc' = [proc EXCEPT ![p] = "running"]
          /\ UNCHANGED <<draft, hand>>
     ELSE /\ \E f \in hand[p] :
               /\ draft' = Push(draft, p, f.msg)
               /\ hand' = [hand EXCEPT ![p] = @ \ {f}]
          /\ UNCHANGED proc
  /\ UNCHANGED <<compose, readOnly, threads, uploads, server, history,
                 crashes, failures>>

-----------------------------------------------------------------------------
(* The user interface thread. *)

UiStep == UNCHANGED <<compose, proc, readOnly, server, crashes, failures>>

UiFree(p) == proc[p] = "running" /\ hand[p] = {}

(* StartComposeBackup(). *)
StartCompose(p, m) ==
  /\ UiFree(p)
  /\ ui[p] = "list"
  /\ m \notin used
  /\ used' = used \cup {m}
  /\ ui' = [ui EXCEPT ![p] = "compose"]
  /\ composing' = [composing EXCEPT ![p] = m]
  /\ running' = [running EXCEPT ![p] = TRUE]
  /\ backup' = [backup EXCEPT ![p] = "testing"]
  /\ UNCHANGED <<draft, hand, uploads, finished, orphans>>
  /\ UiStep

(* The message is cancelled, sent or postponed, then StopComposeBackup():  *)
(* the flag is set outside m_ComposeBackupMutex.                           *)
StopRunning(p) ==
  /\ UiFree(p)
  /\ ui[p] = "compose"
  /\ ui' = [ui EXCEPT ![p] = "notify"]
  /\ running' = [running EXCEPT ![p] = FALSE]
  /\ UNCHANGED <<draft, hand, composing, backup, uploads, history>>
  /\ UiStep

Notify(p) ==
  /\ ui[p] = "notify"
  /\ ui' = [ui EXCEPT ![p] = "join"]
  /\ backup' = [backup EXCEPT ![p] = IF @ = "waiting" THEN "testing" ELSE @]
  /\ UNCHANGED <<draft, hand, composing, running, uploads, history>>
  /\ UiStep

Join(p) ==
  /\ ui[p] = "join"
  /\ backup[p] = "off"
  /\ ui' = [ui EXCEPT ![p] = "list"]
  /\ finished' = finished \cup {composing[p]}
  /\ composing' = [composing EXCEPT ![p] = NoMsg]
  /\ UNCHANGED <<draft, hand, running, backup, uploads, used, orphans>>
  /\ UiStep

(* HandleConnected(): the drafts are popped, then submitted one by one.    *)
PopDrafts(p) ==
  /\ UiFree(p)
  /\ ui[p] \in {"list", "compose"}
  /\ ~readOnly[p]
  /\ hand' = [hand EXCEPT ![p] = Poppable(draft, p, Alive)]
  /\ draft' = Remaining(draft, p, Alive)
  /\ UNCHANGED <<threads, uploads, history>>
  /\ UiStep

Submit(p) ==
  /\ proc[p] = "running"
  /\ \E f \in hand[p] :
       /\ uploads' = [uploads EXCEPT ![p] = <<f.msg>> \o @]
       /\ hand' = [hand EXCEPT ![p] = @ \ {f}]
  /\ UNCHANGED <<draft, threads, history>>
  /\ UiStep

-----------------------------------------------------------------------------
(* ComposeBackupProcess(). *)

BackupStep ==
  /\ UNCHANGED <<draft, proc, readOnly, hand, ui, composing, running, uploads>>
  /\ UNCHANGED <<server, history, crashes, failures>>

Goto(p, from, to) ==
  /\ backup[p] = from
  /\ backup' = [backup EXCEPT ![p] = to]

(* Mutant: a thread told to stop does not remove its backup. *)
TestLeaving(p) ==
  /\ Goto(p, "testing", IF running[p] THEN "locking" ELSE "off")
  /\ UNCHANGED compose
  /\ BackupStep

(* Mutant: the thread does not look at the flag. *)
TestForever(p) ==
  /\ Goto(p, "testing", "locking")
  /\ UNCHANGED compose
  /\ BackupStep

(* The loop condition, read outside m_ComposeBackupMutex. *)
Test(p) ==
  /\ Goto(p, "testing", IF running[p] THEN "locking" ELSE "ending")
  /\ UNCHANGED compose
  /\ BackupStep

(* m_ComposeBackupMutex is taken and given up again by wait_for().         *)
BeginWait(p) ==
  /\ Goto(p, "locking", "waiting")
  /\ UNCHANGED compose
  /\ BackupStep

(* Mutant: the result of wait_for() is not looked at. *)
TimeoutIgnored(p) ==
  /\ Goto(p, "waiting", "testing")
  /\ UNCHANGED compose
  /\ BackupStep

Timeout(p) ==
  /\ Goto(p, "waiting", "saving")
  /\ UNCHANGED compose
  /\ BackupStep

SpuriousWakeup(p) ==
  /\ Goto(p, "waiting", "testing")
  /\ UNCHANGED compose
  /\ BackupStep

Save(p) ==
  /\ Goto(p, "saving", "testing")
  /\ compose' = Replace(compose, p, composing[p])
  /\ BackupStep

(* PopComposeMessages(), its result unused. *)
Discard(p) ==
  /\ Goto(p, "ending", "off")
  /\ compose' = Remaining(compose, p, Alive)
  /\ BackupStep

-----------------------------------------------------------------------------
(* ImapManager performs the uploads, the last submitted first. *)

UploadStep ==
  UNCHANGED <<compose, proc, readOnly, hand, threads, history, crashes>>

UploadOk(p) ==
  /\ uploads[p] # <<>>
  /\ server' = server \cup {Head(uploads[p])}
  /\ uploads' = [uploads EXCEPT ![p] = Tail(@)]
  /\ UNCHANGED <<draft, failures>>
  /\ UploadStep

(* ResultHandler() queues the draft again.  The server may have stored it  *)
(* all the same, when only its answer was lost.                            *)
UploadFailed(p) ==
  /\ uploads[p] # <<>>
  /\ failures < MaxFailures
  /\ failures' = failures + 1
  /\ \/ UNCHANGED server
     \/ server' = server \cup {Head(uploads[p])}
  /\ draft' = Push(draft, p, Head(uploads[p]))
  /\ uploads' = [uploads EXCEPT ![p] = Tail(@)]
  /\ UploadStep

-----------------------------------------------------------------------------
(* The end of a process. *)

(* Whatever a process has in memory is gone with it. *)
Die(p) ==
  /\ proc' = [proc EXCEPT ![p] = "dead"]
  /\ hand' = [hand EXCEPT ![p] = {}]
  /\ uploads' = [uploads EXCEPT ![p] = <<>>]
  /\ ui' = [ui EXCEPT ![p] = "list"]
  /\ composing' = [composing EXCEPT ![p] = NoMsg]
  /\ backup' = [backup EXCEPT ![p] = "off"]
  /\ running' = [running EXCEPT ![p] = FALSE]
  /\ UNCHANGED <<compose, draft, readOnly, server, used, finished, failures>>

(* Quit(): uploads that have not been performed are cleared. *)
Quit(p) ==
  /\ UiFree(p)
  /\ ui[p] = "list"
  /\ Die(p)
  /\ UNCHANGED <<orphans, crashes>>

(* The system goes down, or the process is killed. *)
Crash(p) ==
  /\ p \in Alive
  /\ crashes < MaxCrashes
  /\ crashes' = crashes + 1
  /\ orphans' = orphans \cup
       {f.msg : f \in {g \in compose : g.pid = p /\ ui[p] = "compose"}}
  /\ Die(p)

Finished == \A p \in Pids : proc[p] = "dead"
Terminated == Finished /\ UNCHANGED vars

-----------------------------------------------------------------------------
Startup(p) == InitQueue(p) \/ Recover(p)
Stopping(p) == Notify(p) \/ Join(p)
Connected(p) == PopDrafts(p) \/ Submit(p)
Backup(p) ==
  \/ Test(p) \/ BeginWait(p) \/ Timeout(p)
  \/ Save(p) \/ Discard(p)
Upload(p) == UploadOk(p) \/ UploadFailed(p)

Next ==
  \/ \E p \in Pids :
       \/ Start(p) \/ Startup(p) \/ StopRunning(p) \/ Stopping(p)
       \/ Connected(p) \/ Backup(p) \/ SpuriousWakeup(p) \/ Upload(p)
       \/ Quit(p) \/ Crash(p)
       \/ \E m \in Msgs : StartCompose(p, m)
  \/ Terminated

Spec == Init /\ [][Next]_vars

(* Threads are scheduled, wait_for() is not woken spuriously for ever, a   *)
(* connection that was lost comes back, the user interface handles it when *)
(* it has nothing else to do, and the server answers.  Nobody has to       *)
(* start, to compose, to quit or to crash.                                 *)
Fairness ==
  \A p \in Pids :
    /\ WF_vars(Startup(p))
    /\ WF_vars(Stopping(p))
    /\ WF_vars(Backup(p))
    /\ SF_vars(Timeout(p))
    /\ WF_vars(Submit(p))
    /\ SF_vars(PopDrafts(p) /\ hand'[p] # {})
    /\ WF_vars(Upload(p))

FairSpec == Spec /\ Fairness

-----------------------------------------------------------------------------
ComposeFile == [pid : Pids, idx : {0}, msg : Msgs]

FilesTypeOK ==
  /\ compose \in SUBSET ComposeFile
  /\ draft \in SUBSET File
  /\ hand \in [Pids -> SUBSET File]
  /\ uploads \in [Pids -> Seq(Msgs)]
  /\ server \in SUBSET Msgs

ThreadsTypeOK ==
  /\ proc \in [Pids -> {"new", "starting", "recovering", "running", "dead"}]
  /\ readOnly \in [Pids -> BOOLEAN]
  /\ ui \in [Pids -> {"list", "compose", "notify", "join"}]
  /\ composing \in [Pids -> Msgs \cup {NoMsg}]
  /\ backup \in [Pids -> {"off", "testing", "locking", "waiting", "saving",
                         "ending"}]
  /\ running \in [Pids -> BOOLEAN]

TypeOK ==
  /\ FilesTypeOK
  /\ ThreadsTypeOK
  /\ used \in SUBSET Msgs
  /\ finished \in SUBSET Msgs
  /\ orphans \in SUBSET Msgs
  /\ crashes \in 0 .. MaxCrashes
  /\ failures \in 0 .. MaxFailures

(* The places that hold a copy of m. *)
Copies(m) ==
  {<<"compose", f>> : f \in {g \in compose : g.msg = m}}
    \cup {<<"draft", f>> : f \in {g \in draft : g.msg = m}}
    \cup (UNION {{<<"hand", p, f>> : f \in {g \in hand[p] : g.msg = m}} :
                   p \in Pids})
    \cup (UNION {{<<"uploads", p, k>> :
                    k \in {j \in 1 .. Len(uploads[p]) : uploads[p][j] = m}} :
                   p \in Pids})

(* Once StopComposeBackup() has returned, the message whose composing has  *)
(* ended is never recovered as a draft, although the backup thread saves   *)
(* on its own schedule, other processes start and die meanwhile, and the   *)
(* process itself may die right after.                                     *)
FinishedGone ==
  \A m \in finished : Copies(m) = {} /\ m \notin server

(* Backups travel from directory to directory and from process to process, *)
(* each of which may die on the way: there is never a second copy, and one *)
(* beside the server's only after an upload has failed.                    *)
UniqueCopy ==
  \A m \in Msgs :
    /\ \A c, d \in Copies(m) : c = d
    /\ m \in server /\ Copies(m) # {} => failures > 0

(* While a message is composed, no other process that starts or ends its   *)
(* own composing removes the backup of it.                                 *)
BackupHeldWhileComposing ==
  [][\A p \in Pids :
       ui[p] = "compose" /\ ui'[p] = "compose" /\ (\E f \in compose : f.pid = p)
         => \E f \in compose' : f.pid = p]_vars

(* The backup of a process that died is not removed by anyone, except to   *)
(* be recovered.                                                           *)
OrphanNotDiscarded ==
  [][\A f \in compose :
       f.msg \in orphans /\ f \notin compose'
         => \E p \in Pids : f \in hand'[p]]_vars

(* A message that is composed long enough has a backup. *)
EventuallyBackedUp ==
  \A p \in Pids :
    ui[p] = "compose"
      ~> (ui[p] # "compose" \/ \E f \in compose : f.pid = p)

(* StopComposeBackup() returns, even when its notification came before the *)
(* backup thread began to wait.                                            *)
StopReturns == \A p \in Pids : ui[p] = "notify" ~> ui[p] = "list"

(* A process starts with write access and finds the backup of a dead one.  *)
FindsBackup(p, m) ==
  /\ proc[p] = "starting"
  /\ ~readOnly[p]
  /\ \E f \in compose : f.msg = m /\ proc[f.pid] = "dead"

(* A process that starts with write access, and lives on, uploads what a   *)
(* dead one left.                                                          *)
RecoveredAtNextStart ==
  \A p \in Pids : \A m \in Msgs :
    FindsBackup(p, m) ~> (m \in server \/ proc[p] = "dead")

=============================================================================
