--------------------------- MODULE ComposeBackupProofs ---------------------------
(***************************************************************************)
(* Theorems on ComposeBackup: its types, that what has been finished is    *)
(* gone, that there is one copy of a message, and that nobody else removes *)
(* the backup of a message that is composed.                               *)
(***************************************************************************)
EXTENDS ComposeBackup, OfflineQueueProofs

(* What the labels of the two threads of a process say of each other.      *)
ThreadsAgree(p) ==
  /\ composing[p] # NoMsg <=> ui[p] # "list"
  /\ ui[p] # "list" => proc[p] = "running"
  /\ ui[p] = "list" => backup[p] = "off"
  /\ running[p] <=> ui[p] = "compose"
  /\ ui[p] = "compose" => backup[p] \notin {"off", "ending"}
  /\ hand[p] # {} => proc[p] \in {"recovering", "running"}

TypeInv ==
  /\ TypeOK
  /\ IsFiniteSet(draft)
  /\ \A p \in Pids : ThreadsAgree(p)

LEMMA InitTypeInv == Init => TypeInv
BY FS_EmptySet, NoMsgAssumption, BoundsAssumption
   DEF Init, TypeInv, TypeOK, FilesTypeOK, ThreadsTypeOK, ThreadsAgree

(* The files that are popped and those that remain keep their types.       *)
LEMMA PopTypes ==
  ASSUME TypeInv, NEW p \in Pids
  PROVE  /\ Poppable(compose, p, Alive) \in SUBSET File
         /\ Remaining(compose, p, Alive) \in SUBSET ComposeFile
         /\ Poppable(draft, p, Alive) \in SUBSET File
         /\ Remaining(draft, p, Alive) \in SUBSET File
         /\ IsFiniteSet(Remaining(draft, p, Alive))
<1>1. compose \in SUBSET ComposeFile /\ draft \in SUBSET File /\ IsFiniteSet(draft)
  BY DEF TypeInv, TypeOK, FilesTypeOK
<1>2. ComposeFile \subseteq File
  BY DEF ComposeFile, File
<1> QED
  BY <1>1, <1>2, PopDivides, RemainingFinite

LEMMA PushTypes ==
  ASSUME TypeInv, NEW p \in Pids, NEW m \in Msgs
  PROVE  /\ Push(draft, p, m) \in SUBSET File /\ IsFiniteSet(Push(draft, p, m))
         /\ \E f : f.pid = p /\ f.msg = m /\ Push(draft, p, m) = draft \cup {f}
<1>1. draft \in SUBSET File /\ IsFiniteSet(draft)
  BY DEF TypeInv, TypeOK, FilesTypeOK
<1> QED
  BY <1>1, PushAdds

(* Every step keeps the types and the agreement of the labels.             *)
LEMMA TypeInvPreserved ==
  ASSUME TypeInv, Next
  PROVE  TypeInv'
<1> USE NoMsgAssumption, BoundsAssumption
<1> USE DEF TypeInv, TypeOK, FilesTypeOK, ThreadsTypeOK, ThreadsAgree
<1>1. ASSUME NEW p \in Pids, Start(p)
      PROVE  TypeInv'
  BY <1>1 DEF Start, threads, history
<1>2. ASSUME NEW p \in Pids, InitQueue(p)
      PROVE  TypeInv'
  <2>1. CASE readOnly[p]
    <3>1. proc' = [proc EXCEPT ![p] = "running"] /\ UNCHANGED <<compose, hand>>
      BY <1>2, <2>1, Zenon DEF InitQueue
    <3> QED
      BY <1>2, <3>1 DEF InitQueue, threads, history
  <2>2. CASE ~readOnly[p]
    <3>1. /\ proc' = [proc EXCEPT ![p] = "recovering"]
          /\ hand' = [hand EXCEPT ![p] = Poppable(compose, p, Alive)]
          /\ compose' = Remaining(compose, p, Alive)
      BY <1>2, <2>2, Zenon DEF InitQueue
    <3>2. /\ Poppable(compose, p, Alive) \in SUBSET File
          /\ Remaining(compose, p, Alive) \in SUBSET ComposeFile
      BY PopTypes
    <3> QED
      BY <1>2, <3>1, <3>2 DEF InitQueue, threads, history
  <2> QED
    BY <2>1, <2>2
<1>3. ASSUME NEW p \in Pids, Recover(p)
      PROVE  TypeInv'
  <2>1. CASE hand[p] = {}
    <3>1. proc' = [proc EXCEPT ![p] = "running"] /\ UNCHANGED <<draft, hand>>
      BY <1>3, <2>1 DEF Recover
    <3> QED
      BY <1>3, <2>1, <3>1 DEF Recover, threads, history
  <2>2. CASE hand[p] # {}
    <3>1. PICK f \in hand[p] : /\ draft' = Push(draft, p, f.msg)
                               /\ hand' = [hand EXCEPT ![p] = @ \ {f}]
      BY <1>3, <2>2 DEF Recover
    <3>2. f.msg \in Msgs
      BY DEF File
    <3>3. /\ Push(draft, p, f.msg) \in SUBSET File
          /\ IsFiniteSet(Push(draft, p, f.msg))
      BY <3>2, PushTypes
    <3> QED
      BY <1>3, <2>2, <3>1, <3>3 DEF Recover, threads, history
  <2> QED
    BY <2>1, <2>2
<1>4. ASSUME NEW p \in Pids, NEW m \in Msgs, StartCompose(p, m)
      PROVE  TypeInv'
  BY <1>4 DEF StartCompose, UiFree, UiStep
<1>5. ASSUME NEW p \in Pids, StopRunning(p)
      PROVE  TypeInv'
  BY <1>5 DEF StopRunning, UiFree, UiStep, history
<1>6. ASSUME NEW p \in Pids, Notify(p)
      PROVE  TypeInv'
  BY <1>6 DEF Notify, UiStep, history
<1>7. ASSUME NEW p \in Pids, Join(p)
      PROVE  TypeInv'
  BY <1>7 DEF Join, UiStep
<1>8. ASSUME NEW p \in Pids, PopDrafts(p)
      PROVE  TypeInv'
  BY <1>8, PopTypes DEF PopDrafts, UiFree, UiStep, threads, history
<1>9. ASSUME NEW p \in Pids, Submit(p)
      PROVE  TypeInv'
  <2>1. PICK f \in hand[p] : /\ uploads' = [uploads EXCEPT ![p] = <<f.msg>> \o @]
                             /\ hand' = [hand EXCEPT ![p] = @ \ {f}]
    BY <1>9 DEF Submit
  <2>2. f.msg \in Msgs
    BY DEF File
  <2>3. <<f.msg>> \o uploads[p] \in Seq(Msgs)
    BY <2>2, PushFront
  <2> QED
    BY <1>9, <2>1, <2>3 DEF Submit, UiStep, threads, history
<1>10. ASSUME NEW p \in Pids, Test(p) \/ BeginWait(p) \/ Timeout(p) \/ SpuriousWakeup(p)
       PROVE  TypeInv'
  <2>1. CASE Test(p)
    BY <2>1 DEF Test, Goto, BackupStep, history
  <2>2. CASE BeginWait(p)
    BY <2>2 DEF BeginWait, Goto, BackupStep, history
  <2>3. CASE Timeout(p)
    BY <2>3 DEF Timeout, Goto, BackupStep, history
  <2>4. CASE SpuriousWakeup(p)
    BY <2>4 DEF SpuriousWakeup, Goto, BackupStep, history
  <2> QED
    BY <1>10, <2>1, <2>2, <2>3, <2>4
<1>11. ASSUME NEW p \in Pids, Save(p)
       PROVE  TypeInv'
  <2>1. composing[p] \in Msgs
    BY <1>11 DEF Save, Goto
  <2>2. compose' \in SUBSET ComposeFile
    BY <1>11, <2>1 DEF Save, Replace, ComposeFile
  <2> QED
    BY <1>11, <2>2 DEF Save, Goto, BackupStep, history
<1>12. ASSUME NEW p \in Pids, Discard(p)
       PROVE  TypeInv'
  BY <1>12, PopTypes DEF Discard, Goto, BackupStep, history
<1>13. ASSUME NEW p \in Pids, Upload(p)
       PROVE  TypeInv'
  <2>1. uploads[p] # <<>>
    BY <1>13 DEF Upload, UploadOk, UploadFailed
  <2>2. Head(uploads[p]) \in Msgs /\ Tail(uploads[p]) \in Seq(Msgs)
    BY <2>1, PopFront
  <2>3. CASE UploadOk(p)
    BY <2>2, <2>3 DEF UploadOk, UploadStep, threads, history
  <2>4. CASE UploadFailed(p)
    <3>1. draft' \in SUBSET File /\ IsFiniteSet(draft')
      BY <2>2, <2>4, PushAdds DEF UploadFailed
    <3>2. server' \in SUBSET Msgs
      BY <2>2, <2>4 DEF UploadFailed
    <3>3. failures' \in 0 .. MaxFailures
      BY <2>4 DEF UploadFailed
    <3> QED
      BY <2>2, <2>4, <3>1, <3>2, <3>3 DEF UploadFailed, UploadStep, threads, history
  <2> QED
    BY <1>13, <2>3, <2>4 DEF Upload
<1>14. ASSUME NEW p \in Pids, Quit(p)
       PROVE  TypeInv'
  BY <1>14 DEF Quit, Die
<1>15. ASSUME NEW p \in Pids, Crash(p)
       PROVE  TypeInv'
  <2>1. orphans' \in SUBSET Msgs
    BY <1>15 DEF Crash, ComposeFile
  <2> QED
    BY <1>15, <2>1 DEF Crash, Die
<1>16. CASE Terminated
  BY <1>16 DEF Terminated, vars, threads, history
<1> QED
  BY <1>1, <1>2, <1>3, <1>4, <1>5, <1>6, <1>7, <1>8, <1>9, <1>10, <1>11, <1>12,
     <1>13, <1>14, <1>15, <1>16
     DEF Next, Startup, Stopping, Connected, Backup

(* Every variable keeps its type (ui.cpp, offlinequeue.cpp).               *)
THEOREM TypeCorrect == Spec => []TypeOK
<1>1. TypeInv /\ UNCHANGED vars => TypeInv'
  BY DEF TypeInv, TypeOK, FilesTypeOK, ThreadsTypeOK, ThreadsAgree, vars, threads, history
<1>2. TypeInv => TypeOK
  BY DEF TypeInv
<1> QED
  BY InitTypeInv, TypeInvPreserved, <1>1, <1>2, PTL DEF Spec

-----------------------------------------------------------------------------
(* Copies.  A copy of m is told by the kind of its place, the process the  *)
(* place belongs to, and the file or the index it has there.               *)

Kinds == {"compose", "draft", "hand", "uploads"}

IsCopy(k, p, c, m) ==
  \/ k = "compose" /\ c \in compose /\ c.pid = p /\ c.msg = m
  \/ k = "draft" /\ c \in draft /\ c.pid = p /\ c.msg = m
  \/ k = "hand" /\ c \in hand[p] /\ c.msg = m
  \/ k = "uploads" /\ c \in 1 .. Len(uploads[p]) /\ uploads[p][c] = m

(* There is one copy at most.                                              *)
Single(m) ==
  \A k, l \in Kinds, p, q \in Pids : \A c, d :
    IsCopy(k, p, c, m) /\ IsCopy(l, q, d, m) => k = l /\ p = q /\ c = d

(* A message that is composed is nowhere but in the backup of its process; *)
(* one that is finished is nowhere.                                        *)
MessageInv(m) ==
  /\ Single(m)
  /\ m \notin used =>
       /\ m \notin server /\ m \notin finished
       /\ \A p \in Pids : composing[p] # m
       /\ \A k \in Kinds, p \in Pids : \A c : ~IsCopy(k, p, c, m)
  /\ m \in finished =>
       /\ m \notin server
       /\ \A p \in Pids : composing[p] # m
       /\ \A k \in Kinds, p \in Pids : \A c : ~IsCopy(k, p, c, m)
  /\ \A p \in Pids : composing[p] = m =>
       /\ m \notin server
       /\ \A q \in Pids : composing[q] = m => q = p
       /\ \A k \in Kinds, q \in Pids : \A c :
            IsCopy(k, q, c, m) => k = "compose" /\ q = p
  /\ m \in server =>
       failures > 0 \/ \A k \in Kinds, p \in Pids : \A c : ~IsCopy(k, p, c, m)

(* The backup of a process that runs is of the message it composes, and its*)
(* thread is there to remove it.                                           *)
BackupsOwned ==
  \A f \in compose :
    \/ proc[f.pid] = "dead"
    \/ composing[f.pid] = f.msg /\ backup[f.pid] # "off"

CopyInv ==
  /\ BackupsOwned
  /\ \A m \in Msgs : MessageInv(m)

LEMMA CopiesAre ==
  ASSUME NEW m, NEW c \in Copies(m)
  PROVE  \/ \E f \in compose : c = <<"compose", f>> /\ f.msg = m
         \/ \E f \in draft : c = <<"draft", f>> /\ f.msg = m
         \/ \E p \in Pids : \E f \in hand[p] : c = <<"hand", p, f>> /\ f.msg = m
         \/ \E p \in Pids : \E j \in 1 .. Len(uploads[p]) :
              c = <<"uploads", p, j>> /\ uploads[p][j] = m
BY DEF Copies

LEMMA CopyInvProperties ==
  ASSUME TypeInv, CopyInv
  PROVE  FinishedGone /\ UniqueCopy
<1> USE DEF TypeInv, TypeOK, FilesTypeOK, CopyInv
<1> DEFINE Place(k, p, c) == IF k \in {"compose", "draft"} THEN <<k, c>> ELSE <<k, p, c>>
<1>1. \A f \in compose \cup draft : f.pid \in Pids
  BY DEF ComposeFile, File
<1>2. ASSUME NEW m \in Msgs, NEW c \in Copies(m)
      PROVE  \E k \in Kinds, p \in Pids : \E x :
               IsCopy(k, p, x, m) /\ c = Place(k, p, x)
  <2>1. CASE \E f \in compose : c = <<"compose", f>> /\ f.msg = m
    <3>1. PICK f \in compose : c = <<"compose", f>> /\ f.msg = m
      BY <2>1
    <3> QED
      BY <1>1, <3>1 DEF IsCopy, Kinds
  <2>2. CASE \E f \in draft : c = <<"draft", f>> /\ f.msg = m
    <3>1. PICK f \in draft : c = <<"draft", f>> /\ f.msg = m
      BY <2>2
    <3> QED
      BY <1>1, <3>1 DEF IsCopy, Kinds
  <2>3. CASE \E p \in Pids : \E f \in hand[p] : c = <<"hand", p, f>> /\ f.msg = m
    <3>1. PICK p \in Pids : \E f \in hand[p] : c = <<"hand", p, f>> /\ f.msg = m
      BY <2>3
    <3>2. PICK f \in hand[p] : c = <<"hand", p, f>> /\ f.msg = m
      BY <3>1
    <3> QED
      BY <3>2 DEF IsCopy, Kinds
  <2>4. CASE \E p \in Pids : \E j \in 1 .. Len(uploads[p]) :
               c = <<"uploads", p, j>> /\ uploads[p][j] = m
    <3>1. PICK p \in Pids : \E j \in 1 .. Len(uploads[p]) :
                c = <<"uploads", p, j>> /\ uploads[p][j] = m
      BY <2>4
    <3>2. PICK j \in 1 .. Len(uploads[p]) : c = <<"uploads", p, j>> /\ uploads[p][j] = m
      BY <3>1
    <3> QED
      BY <3>2 DEF IsCopy, Kinds
  <2>5. \/ \E f \in compose : c = <<"compose", f>> /\ f.msg = m
        \/ \E f \in draft : c = <<"draft", f>> /\ f.msg = m
        \/ \E p \in Pids : \E f \in hand[p] : c = <<"hand", p, f>> /\ f.msg = m
        \/ \E p \in Pids : \E j \in 1 .. Len(uploads[p]) :
             c = <<"uploads", p, j>> /\ uploads[p][j] = m
    BY CopiesAre
  <2> HIDE DEF Place
  <2> QED
    BY <2>1, <2>2, <2>3, <2>4, <2>5
<1>3. ASSUME NEW m \in Msgs, NEW c \in Copies(m)
      PROVE  \E k \in Kinds, p \in Pids : \E x : IsCopy(k, p, x, m)
  BY <1>2, <1>3
<1> HIDE DEF Place
<1>4. ASSUME NEW m \in Msgs, NEW c \in Copies(m), NEW d \in Copies(m)
      PROVE  c = d
  <2>1a. PICK k \in Kinds, p \in Pids : \E x : IsCopy(k, p, x, m) /\ c = Place(k, p, x)
    BY <1>2, <1>4
  <2>1. PICK x : IsCopy(k, p, x, m) /\ c = Place(k, p, x)
    BY <2>1a
  <2>2a. PICK l \in Kinds, q \in Pids : \E y : IsCopy(l, q, y, m) /\ d = Place(l, q, y)
    BY <1>2, <1>4
  <2>2. PICK y : IsCopy(l, q, y, m) /\ d = Place(l, q, y)
    BY <2>2a
  <2>3. k = l /\ p = q /\ x = y
    BY <2>1, <2>2 DEF MessageInv, Single
  <2> QED
    BY <2>1, <2>2, <2>3
<1>5. FinishedGone
  BY <1>3 DEF FinishedGone, MessageInv
<1>6. UniqueCopy
  BY <1>3, <1>4 DEF UniqueCopy, MessageInv
<1> QED
  BY <1>5, <1>6

LEMMA InitCopyInv == Init => CopyInv
<1> SUFFICES ASSUME Init PROVE CopyInv
  OBVIOUS
<1>1. \A k \in Kinds, p \in Pids : \A c, m : ~IsCopy(k, p, c, m)
  BY DEF Init, IsCopy
<1>2. \A m \in Msgs : MessageInv(m)
  BY <1>1, NoMsgAssumption DEF Init, MessageInv, Single
<1> QED
  BY <1>2 DEF Init, CopyInv, BackupsOwned

Somewhere(m) == \E k \in Kinds, p \in Pids : \E c : IsCopy(k, p, c, m)

(* A copy that may go on to another place: not the backup of a message that*)
(* is composed.                                                            *)
Travels(m) ==
  /\ \A p \in Pids : composing[p] # m
  /\ Somewhere(m)

(* A message stays as it is, or a copy of it that may travel has done so.  *)
LEMMA MessageKept ==
  ASSUME CopyInv, NEW m \in Msgs, Single(m)',
         UNCHANGED <<used, finished>>,
         failures > 0 => failures' > 0,
         \A p \in Pids : composing'[p] \in {composing[p], NoMsg},
         m \in server' => m \in server \/ Travels(m),
         m \in server' => m \in server \/ failures' > 0 \/ ~Somewhere(m)',
         \A k \in Kinds, p \in Pids : \A c :
           IsCopy(k, p, c, m)' => IsCopy(k, p, c, m) \/ Travels(m)
  PROVE  MessageInv(m)'
<1>1. MessageInv(m) /\ m # NoMsg
  BY NoMsgAssumption DEF CopyInv
<1> QED
  BY <1>1 DEF MessageInv, Travels, Somewhere

(* No message gets a copy or goes to the server.                           *)
LEMMA NoNewCopies ==
  ASSUME CopyInv, UNCHANGED <<server, used, finished, failures>>,
         \A p \in Pids : composing'[p] \in {composing[p], NoMsg},
         \A m \in Msgs, k \in Kinds, p \in Pids : \A c :
           IsCopy(k, p, c, m)' => IsCopy(k, p, c, m)
  PROVE  \A m \in Msgs : MessageInv(m)'
<1> SUFFICES ASSUME NEW m \in Msgs PROVE MessageInv(m)'
  OBVIOUS
<1>1. Single(m)'
  BY DEF CopyInv, MessageInv, Single
<1> QED
  BY <1>1, MessageKept

(* A process that starts takes the backups of dead ones only.              *)
LEMMA InitQueueCopies ==
  ASSUME TypeInv, CopyInv, NEW p \in Pids, InitQueue(p)
  PROVE  CopyInv'
<1> USE DEF TypeInv, TypeOK, FilesTypeOK, ThreadsTypeOK
<1>0. CASE readOnly[p]
  <2>1. proc' = [proc EXCEPT ![p] = "running"] /\ UNCHANGED <<compose, hand>>
    BY <1>0, Zenon DEF InitQueue
  <2>2. \A m \in Msgs : MessageInv(m)'
    BY <2>1, NoNewCopies DEF InitQueue, IsCopy, threads, history
  <2>3. BackupsOwned'
    BY <2>1, proc[p] = "starting" DEF InitQueue, threads, CopyInv, BackupsOwned
  <2> QED
    BY <2>2, <2>3 DEF CopyInv
<1> SUFFICES ASSUME ~readOnly[p]
             PROVE  CopyInv'
  BY <1>0
<1>1. /\ proc[p] = "starting" /\ proc' = [proc EXCEPT ![p] = "recovering"]
      /\ hand' = [hand EXCEPT ![p] = Poppable(compose, p, Alive)]
      /\ compose' = Remaining(compose, p, Alive)
      /\ UNCHANGED <<draft, threads, uploads, server, history, failures>>
  BY Zenon DEF InitQueue
<1>2. hand[p] = {} /\ composing[p] = NoMsg
  BY <1>1 DEF ThreadsAgree
<1>3. \A f \in compose : f.pid \in Pids /\ f.msg \in Msgs
  BY DEF ComposeFile
<1>4. \A f \in Poppable(compose, p, Alive) : f \in compose /\ f \notin compose' /\ f.pid # p
                                           /\ proc[f.pid] = "dead" /\ composing[f.pid] = NoMsg
  BY <1>1, <1>2, <1>3, PopDivides, NoMsgAssumption
     DEF CopyInv, BackupsOwned, ThreadsAgree, Alive
<1>5. ASSUME NEW m \in Msgs, NEW k \in Kinds, NEW q \in Pids, NEW c, IsCopy(k, q, c, m)'
      PROVE  \/ IsCopy(k, q, c, m) /\ (k = "compose" => c \in compose')
             \/ /\ k = "hand" /\ q = p /\ c.pid \in Pids
                /\ c \notin compose' /\ proc[c.pid] = "dead"
                /\ IsCopy("compose", c.pid, c, m)
  BY <1>1, <1>3, <1>4, <1>5, PopDivides DEF IsCopy
<1>6. ASSUME NEW m \in Msgs
      PROVE  MessageInv(m)'
  <2>1. Single(m)'
    <3>1. Single(m) /\ "compose" \in Kinds
      BY DEF CopyInv, MessageInv, Kinds
    <3>2. SUFFICES ASSUME NEW k \in Kinds, NEW l \in Kinds, NEW q \in Pids, NEW r \in Pids,
                          NEW c, NEW d, IsCopy(k, q, c, m)', IsCopy(l, r, d, m)'
                   PROVE  k = l /\ q = r /\ c = d
      BY DEF Single
    <3>3. CASE IsCopy(k, q, c, m) /\ IsCopy(l, r, d, m)
      BY <3>1, <3>3 DEF Single
    <3>4. CASE /\ k = "hand" /\ q = p /\ c \notin compose' /\ c.pid \in Pids
               /\ IsCopy("compose", c.pid, c, m) /\ IsCopy(l, r, d, m)
      <4>1. l = "compose" /\ c = d
        BY <3>1, <3>4 DEF Single
      <4>2. d \in compose'
        BY <3>2, <4>1 DEF IsCopy
      <4> QED
        BY <3>4, <4>1, <4>2
    <3>5. CASE /\ l = "hand" /\ r = p /\ d \notin compose' /\ d.pid \in Pids
               /\ IsCopy("compose", d.pid, d, m) /\ IsCopy(k, q, c, m)
      <4>1. k = "compose" /\ c = d
        BY <3>1, <3>5 DEF Single
      <4>2. c \in compose'
        BY <3>2, <4>1 DEF IsCopy
      <4> QED
        BY <3>5, <4>1, <4>2
    <3>6. CASE /\ k = "hand" /\ q = p /\ l = "hand" /\ r = p
               /\ c.pid \in Pids /\ IsCopy("compose", c.pid, c, m)
               /\ d.pid \in Pids /\ IsCopy("compose", d.pid, d, m)
      <4>1. c = d
        BY <3>1, <3>6 DEF Single
      <4> QED
        BY <3>6, <4>1
    <3>7. /\ \/ IsCopy(k, q, c, m)
             \/ /\ k = "hand" /\ q = p /\ c.pid \in Pids
                /\ c \notin compose' /\ IsCopy("compose", c.pid, c, m)
          /\ \/ IsCopy(l, r, d, m)
             \/ /\ l = "hand" /\ r = p /\ d.pid \in Pids
                /\ d \notin compose' /\ IsCopy("compose", d.pid, d, m)
      BY <1>5, <3>2
    <3> QED
      BY <3>3, <3>4, <3>5, <3>6, <3>7
  <2>2. ASSUME NEW k \in Kinds, NEW q \in Pids, NEW c, IsCopy(k, q, c, m)'
        PROVE  IsCopy(k, q, c, m) \/ Travels(m)
    <3> SUFFICES ASSUME ~IsCopy(k, q, c, m)
                 PROVE  Travels(m)
      OBVIOUS
    <3>1. /\ c.pid \in Pids /\ composing[c.pid] = NoMsg
          /\ IsCopy("compose", c.pid, c, m)
      BY <1>4, <1>5, <2>2, PopDivides, <1>1 DEF IsCopy
    <3>2. \A r \in Pids : composing[r] = m => c.pid = r
      BY <3>1 DEF CopyInv, MessageInv, Kinds
    <3> QED
      BY <3>1, <3>2, NoMsgAssumption DEF Travels, Somewhere, Kinds
  <2> QED
    BY <1>1, <2>1, <2>2, MessageKept DEF threads, history
<1>7. BackupsOwned'
  BY <1>1, <1>3, PopDivides DEF CopyInv, BackupsOwned, threads
<1> QED
  BY <1>6, <1>7 DEF CopyInv

(* Recovered backups become drafts.                                        *)
LEMMA RecoverCopies ==
  ASSUME TypeInv, CopyInv, NEW p \in Pids, Recover(p)
  PROVE  CopyInv'
<1> USE DEF TypeInv, TypeOK, FilesTypeOK, ThreadsTypeOK
<1>1. BackupsOwned'
  BY DEF Recover, threads, CopyInv, BackupsOwned, ThreadsAgree, ComposeFile
<1>2. CASE hand[p] = {}
  <2>1. UNCHANGED <<draft, hand>>
    BY <1>2 DEF Recover
  <2>2. \A m \in Msgs : MessageInv(m)'
    BY <2>1, NoNewCopies DEF Recover, IsCopy, threads, history
  <2> QED
    BY <1>1, <2>2 DEF CopyInv
<1>3. CASE hand[p] # {}
  <2>1. PICK f \in hand[p] : /\ draft' = Push(draft, p, f.msg)
                             /\ hand' = [hand EXCEPT ![p] = @ \ {f}]
    BY <1>3 DEF Recover
  <2>2. f.msg \in Msgs /\ IsCopy("hand", p, f, f.msg)
    BY DEF File, IsCopy
  <2>3. PICK g : g.pid = p /\ g.msg = f.msg /\ draft' = draft \cup {g}
    <3>1. \E g : g.pid = p /\ g.msg = f.msg /\ Push(draft, p, f.msg) = draft \cup {g}
      BY <2>2, PushTypes
    <3> QED
      BY <2>1, <3>1
  <2>4. ASSUME NEW m \in Msgs, NEW k \in Kinds, NEW q \in Pids, NEW c, IsCopy(k, q, c, m)'
        PROVE  \/ IsCopy(k, q, c, m) /\ ~(k = "hand" /\ q = p /\ c = f)
               \/ k = "draft" /\ q = p /\ c = g /\ m = f.msg
    BY <2>1, <2>3, <2>4 DEF Recover, IsCopy
  <2>5. ASSUME NEW m \in Msgs
        PROVE  MessageInv(m)'
    <3>0. Single(m)
      BY DEF CopyInv, MessageInv
    <3>1. Single(m)'
      <4>1. CASE m = f.msg
        <5>1. \A k \in Kinds, q \in Pids : \A c :
                IsCopy(k, q, c, m)' => k = "draft" /\ q = p /\ c = g
          BY <2>2, <2>4, <3>0, <4>1 DEF Single, Kinds
        <5> QED
          BY <5>1 DEF Single
      <4>2. CASE m # f.msg
        BY <2>4, <3>0, <4>2 DEF Single
      <4> QED
        BY <4>1, <4>2
    <3>2. m = f.msg => Travels(m)
      BY <2>2 DEF Travels, Somewhere, CopyInv, MessageInv, Kinds
    <3>3. \A k \in Kinds, q \in Pids : \A c :
            IsCopy(k, q, c, m)' => IsCopy(k, q, c, m) \/ Travels(m)
      BY <2>4, <3>2
    <3> QED
      BY <3>1, <3>3, MessageKept DEF Recover, threads, history
  <2> QED
    BY <1>1, <2>5 DEF CopyInv
<1> QED
  BY <1>2, <1>3

(* Drafts are popped into the hand of the user interface.                  *)
LEMMA PopDraftsCopies ==
  ASSUME TypeInv, CopyInv, NEW p \in Pids, PopDrafts(p)
  PROVE  CopyInv'
<1> USE DEF TypeInv, TypeOK, FilesTypeOK, ThreadsTypeOK
<1>1. /\ hand' = [hand EXCEPT ![p] = Poppable(draft, p, Alive)]
      /\ draft' = Remaining(draft, p, Alive)
      /\ hand[p] = {}
      /\ UNCHANGED <<compose, proc, threads, uploads, server, history, failures>>
  BY Zenon DEF PopDrafts, UiFree, UiStep
<1>2. \A f \in draft : f.pid \in Pids
  BY DEF File
<1>3. ASSUME NEW m \in Msgs, NEW k \in Kinds, NEW q \in Pids, NEW c, IsCopy(k, q, c, m)'
      PROVE  \/ IsCopy(k, q, c, m) /\ (k = "draft" => c \in draft')
             \/ /\ k = "hand" /\ q = p /\ c.pid \in Pids
                /\ c \notin draft' /\ IsCopy("draft", c.pid, c, m)
  BY <1>1, <1>2, <1>3, PopDivides DEF IsCopy
<1>4. ASSUME NEW m \in Msgs
      PROVE  MessageInv(m)'
  <2>1. Single(m)'
    <3>1. Single(m) /\ "draft" \in Kinds
      BY DEF CopyInv, MessageInv, Kinds
    <3>2. SUFFICES ASSUME NEW k \in Kinds, NEW l \in Kinds, NEW q \in Pids, NEW r \in Pids,
                          NEW c, NEW d, IsCopy(k, q, c, m)', IsCopy(l, r, d, m)'
                   PROVE  k = l /\ q = r /\ c = d
      BY DEF Single
    <3>3. CASE IsCopy(k, q, c, m) /\ IsCopy(l, r, d, m)
      BY <3>1, <3>3 DEF Single
    <3>4. CASE /\ k = "hand" /\ q = p /\ c \notin draft' /\ c.pid \in Pids
               /\ IsCopy("draft", c.pid, c, m) /\ IsCopy(l, r, d, m)
      <4>1. l = "draft" /\ c = d
        BY <3>1, <3>4 DEF Single
      <4>2. d \in draft'
        BY <3>2, <4>1 DEF IsCopy
      <4> QED
        BY <3>4, <4>1, <4>2
    <3>5. CASE /\ l = "hand" /\ r = p /\ d \notin draft' /\ d.pid \in Pids
               /\ IsCopy("draft", d.pid, d, m) /\ IsCopy(k, q, c, m)
      <4>1. k = "draft" /\ c = d
        BY <3>1, <3>5 DEF Single
      <4>2. c \in draft'
        BY <3>2, <4>1 DEF IsCopy
      <4> QED
        BY <3>5, <4>1, <4>2
    <3>6. CASE /\ k = "hand" /\ q = p /\ l = "hand" /\ r = p
               /\ c.pid \in Pids /\ IsCopy("draft", c.pid, c, m)
               /\ d.pid \in Pids /\ IsCopy("draft", d.pid, d, m)
      <4>1. c = d
        BY <3>1, <3>6 DEF Single
      <4> QED
        BY <3>6, <4>1
    <3>7. /\ \/ IsCopy(k, q, c, m)
             \/ /\ k = "hand" /\ q = p /\ c.pid \in Pids
                /\ c \notin draft' /\ IsCopy("draft", c.pid, c, m)
          /\ \/ IsCopy(l, r, d, m)
             \/ /\ l = "hand" /\ r = p /\ d.pid \in Pids
                /\ d \notin draft' /\ IsCopy("draft", d.pid, d, m)
      BY <1>3, <3>2
    <3> QED
      BY <3>3, <3>4, <3>5, <3>6, <3>7
  <2>2. (\E q \in Pids : \E c : IsCopy("draft", q, c, m)) => Travels(m)
    BY DEF Travels, Somewhere, CopyInv, MessageInv, Kinds
  <2>3. \A k \in Kinds, q \in Pids : \A c :
          IsCopy(k, q, c, m)' => IsCopy(k, q, c, m) \/ Travels(m)
    BY <1>3, <2>2
  <2> QED
    BY <1>1, <2>1, <2>3, MessageKept DEF threads, history
<1>5. BackupsOwned'
  BY <1>1 DEF CopyInv, BackupsOwned, threads
<1> QED
  BY <1>4, <1>5 DEF CopyInv

(* ... and submitted.                                                      *)
LEMMA SubmitCopies ==
  ASSUME TypeInv, CopyInv, NEW p \in Pids, Submit(p)
  PROVE  CopyInv'
<1> USE DEF TypeInv, TypeOK, FilesTypeOK, ThreadsTypeOK
<1>1. PICK f \in hand[p] : /\ uploads' = [uploads EXCEPT ![p] = <<f.msg>> \o @]
                           /\ hand' = [hand EXCEPT ![p] = @ \ {f}]
  BY DEF Submit
<1>2. UNCHANGED <<compose, draft, proc, threads, server, history, failures>>
  BY DEF Submit, UiStep
<1>3. f.msg \in Msgs /\ IsCopy("hand", p, f, f.msg)
  BY DEF File, IsCopy
<1>4. /\ uploads' = [uploads EXCEPT ![p] = uploads'[p]]
      /\ uploads'[p][1] = f.msg
      /\ \A j \in 1 .. Len(uploads'[p]) :
           j = 1 \/ (j - 1 \in 1 .. Len(uploads[p]) /\ uploads'[p][j] = uploads[p][j - 1])
  BY <1>1, <1>3, PushFront
<1>5. ASSUME NEW m \in Msgs, NEW k \in Kinds, NEW q \in Pids, NEW c, IsCopy(k, q, c, m)'
      PROVE  \/ /\ k # "uploads" \/ q # p
                /\ IsCopy(k, q, c, m) /\ ~(k = "hand" /\ q = p /\ c = f)
             \/ k = "uploads" /\ q = p /\ c = 1 /\ m = f.msg
             \/ /\ k = "uploads" /\ q = p /\ c \in Int
                /\ IsCopy("uploads", p, c - 1, m)
  BY <1>1, <1>2, <1>4, <1>5 DEF IsCopy
<1>6. ASSUME NEW m \in Msgs
      PROVE  MessageInv(m)'
  <2>1. Single(m)'
    <3> SUFFICES ASSUME NEW k \in Kinds, NEW l \in Kinds, NEW q \in Pids, NEW r \in Pids,
                        NEW c, NEW d, IsCopy(k, q, c, m)', IsCopy(l, r, d, m)'
                 PROVE  k = l /\ q = r /\ c = d
      BY DEF Single
    <3>1. Single(m)
      BY DEF CopyInv, MessageInv
    <3>2. CASE m = f.msg
      <4>1. \A h \in Kinds, s \in Pids : \A e :
              IsCopy(h, s, e, m) => h = "hand" /\ s = p /\ e = f
        BY <1>3, <3>1, <3>2 DEF Single, Kinds
      <4>2. \A h \in Kinds, s \in Pids : \A e :
              IsCopy(h, s, e, m)' => h = "uploads" /\ s = p /\ e = 1
        BY <1>5, <4>1, "uploads" \in Kinds DEF Kinds
      <4> QED
        BY <4>2
    <3>3. CASE m # f.msg
      <4>1. CASE (k = "uploads" /\ q = p) /\ (l = "uploads" /\ r = p)
        <5>1. /\ c \in Int /\ IsCopy("uploads", p, c - 1, m)
              /\ d \in Int /\ IsCopy("uploads", p, d - 1, m)
          BY <1>5, <3>3, <4>1
        <5>2. c - 1 = d - 1
          BY <3>1, <5>1 DEF Single, Kinds
        <5> QED
          BY <4>1, <5>1, <5>2
      <4>2. CASE ~(k = "uploads" /\ q = p) /\ ~(l = "uploads" /\ r = p)
        BY <1>5, <3>1, <3>3, <4>2 DEF Single
      <4>3. CASE (k = "uploads" /\ q = p) # (l = "uploads" /\ r = p)
        BY <1>5, <3>1, <3>3, <4>3 DEF Single, Kinds
      <4> QED
        BY <4>1, <4>2, <4>3
    <3> QED
      BY <3>2, <3>3
  <2>2. m = f.msg => Travels(m)
    BY <1>3 DEF Travels, Somewhere, CopyInv, MessageInv, Kinds
  <2>3. (\E c : IsCopy("uploads", p, c, m)) => Travels(m)
    BY DEF Travels, Somewhere, CopyInv, MessageInv, Kinds
  <2>4. \A k \in Kinds, q \in Pids : \A c :
          IsCopy(k, q, c, m)' => IsCopy(k, q, c, m) \/ Travels(m)
    BY <1>5, <2>2, <2>3
  <2> QED
    BY <1>2, <2>1, <2>4, MessageKept DEF threads, history
<1>7. BackupsOwned'
  BY <1>2 DEF CopyInv, BackupsOwned, threads
<1> QED
  BY <1>6, <1>7 DEF CopyInv

(* An upload takes the first of the queue, to the server or back.          *)
LEMMA UploadCopies ==
  ASSUME TypeInv, CopyInv, NEW p \in Pids, Upload(p)
  PROVE  CopyInv'
<1> USE DEF TypeInv, TypeOK, FilesTypeOK, ThreadsTypeOK
<1> DEFINE first == Head(uploads[p])
<1>1. /\ uploads[p] # <<>> /\ uploads' = [uploads EXCEPT ![p] = Tail(@)]
      /\ UNCHANGED <<compose, proc, hand, threads, history>>
  BY DEF Upload, UploadOk, UploadFailed, UploadStep
<1>2. /\ first \in Msgs /\ IsCopy("uploads", p, 1, first)
      /\ uploads' = [uploads EXCEPT ![p] = uploads'[p]]
      /\ \A j \in 1 .. Len(uploads'[p]) :
           /\ j + 1 \in 1 .. Len(uploads[p]) /\ j + 1 # 1
           /\ uploads'[p][j] = uploads[p][j + 1]
  BY <1>1, PopFront DEF IsCopy
<1>3. /\ server' \in SUBSET (server \cup {first})
      /\ \/ UploadOk(p) /\ draft' = draft /\ failures' = failures
         \/ failures' = failures + 1 /\ draft' = Push(draft, p, first)
  BY DEF Upload, UploadOk, UploadFailed
<1> HIDE DEF first
<1>4. PICK g : g.pid = p /\ g.msg = first /\ draft' \in {draft, draft \cup {g}}
               /\ (UploadOk(p) => draft' = draft)
  <2>1. CASE draft' = draft
    BY <2>1, [pid |-> p, msg |-> first].pid = p, [pid |-> p, msg |-> first].msg = first
  <2>2. CASE draft' = Push(draft, p, first) /\ failures' = failures + 1
    <3>1. ~UploadOk(p)
      BY <2>2 DEF UploadOk
    <3>2. \E f : f.pid = p /\ f.msg = first /\ Push(draft, p, first) = draft \cup {f}
      BY <1>2, PushTypes
    <3> QED
      BY <2>2, <3>1, <3>2
  <2> QED
    BY <1>3, <2>1, <2>2
<1>5. ASSUME NEW m \in Msgs, NEW k \in Kinds, NEW q \in Pids, NEW c, IsCopy(k, q, c, m)'
      PROVE  \/ (k # "uploads" \/ q # p) /\ IsCopy(k, q, c, m)
             \/ /\ k = "draft" /\ q = p /\ c = g /\ m = first /\ ~UploadOk(p)
             \/ /\ k = "uploads" /\ q = p /\ c \in Int /\ c + 1 # 1
                /\ IsCopy("uploads", p, c + 1, m)
  BY <1>1, <1>2, <1>4, <1>5 DEF IsCopy
<1>6. ASSUME NEW m \in Msgs
      PROVE  MessageInv(m)'
  <2>0. Single(m)
    BY DEF CopyInv, MessageInv
  <2>1. Single(m)'
    <3> SUFFICES ASSUME NEW k \in Kinds, NEW l \in Kinds, NEW q \in Pids, NEW r \in Pids,
                        NEW c, NEW d, IsCopy(k, q, c, m)', IsCopy(l, r, d, m)'
                 PROVE  k = l /\ q = r /\ c = d
      BY DEF Single
    <3>1. \A h \in Kinds, s \in Pids : \A e :
            m = first /\ IsCopy(h, s, e, m) => h = "uploads" /\ s = p /\ e = 1
      BY <1>2, <2>0 DEF Single, Kinds
    <3>2. CASE m = first
      <4>1. \A h \in Kinds, s \in Pids : \A e :
              IsCopy(h, s, e, m)' => h = "draft" /\ s = p /\ e = g
        BY <1>5, <3>1, <3>2, "uploads" \in Kinds DEF Kinds
      <4> QED
        BY <4>1
    <3>3. CASE m # first
      <4>1. CASE (k = "uploads" /\ q = p) /\ (l = "uploads" /\ r = p)
        <5>1. /\ c \in Int /\ IsCopy("uploads", p, c + 1, m)
              /\ d \in Int /\ IsCopy("uploads", p, d + 1, m)
          BY <1>5, <3>3, <4>1
        <5>2. c + 1 = d + 1
          BY <2>0, <5>1 DEF Single, Kinds
        <5> QED
          BY <4>1, <5>1, <5>2
      <4>2. CASE ~(k = "uploads" /\ q = p) /\ ~(l = "uploads" /\ r = p)
        BY <1>5, <2>0, <3>3, <4>2 DEF Single
      <4>3. CASE (k = "uploads" /\ q = p) # (l = "uploads" /\ r = p)
        BY <1>5, <2>0, <3>3, <4>3 DEF Single, Kinds
      <4> QED
        BY <4>1, <4>2, <4>3
    <3> QED
      BY <3>2, <3>3
  <2>2. m = first => Travels(m)
    BY <1>2 DEF Travels, Somewhere, CopyInv, MessageInv, Kinds
  <2>3. (\E c : IsCopy("uploads", p, c, m)) => Travels(m)
    BY DEF Travels, Somewhere, CopyInv, MessageInv, Kinds
  <2>4. \A k \in Kinds, q \in Pids : \A c :
          IsCopy(k, q, c, m)' => IsCopy(k, q, c, m) \/ Travels(m)
    BY <1>5, <2>2, <2>3
  <2>5. UploadOk(p) /\ m = first => ~Somewhere(m)'
    <3>1. \A h \in Kinds, s \in Pids : \A e :
            m = first /\ IsCopy(h, s, e, m) => h = "uploads" /\ s = p /\ e = 1
      BY <1>2, <2>0 DEF Single, Kinds
    <3> QED
      BY <1>5, <3>1 DEF Somewhere, Kinds
  <2>6. /\ m \in server' => m \in server \/ Travels(m)
        /\ m \in server' => m \in server \/ failures' > 0 \/ ~Somewhere(m)'
        /\ failures > 0 => failures' > 0
    BY <1>3, <2>2, <2>5
  <2> QED
    BY <1>1, <2>1, <2>4, <2>6, MessageKept DEF threads, history
<1>7. BackupsOwned'
  BY <1>1 DEF CopyInv, BackupsOwned, threads
<1> QED
  BY <1>6, <1>7 DEF CopyInv

(* A message that nobody has composed before has no copy yet.              *)
LEMMA StartComposeCopies ==
  ASSUME TypeInv, CopyInv, NEW p \in Pids, NEW m \in Msgs, StartCompose(p, m)
  PROVE  CopyInv'
<1> USE DEF TypeInv, TypeOK, FilesTypeOK, ThreadsTypeOK
<1>1. /\ m \notin used /\ used' = used \cup {m} /\ composing' = [composing EXCEPT ![p] = m]
      /\ backup' = [backup EXCEPT ![p] = "testing"] /\ ui[p] = "list"
      /\ UNCHANGED <<compose, draft, proc, hand, uploads, server, finished, failures>>
  BY DEF StartCompose, UiStep
<1>2. composing[p] = NoMsg /\ backup[p] = "off"
  BY <1>1 DEF ThreadsAgree
<1>3. \A k \in Kinds, q \in Pids : \A c, n : IsCopy(k, q, c, n)' <=> IsCopy(k, q, c, n)
  BY <1>1 DEF IsCopy
<1>4. ASSUME NEW n \in Msgs
      PROVE  MessageInv(n)'
  <2>1. MessageInv(n) /\ n # NoMsg
    BY NoMsgAssumption DEF CopyInv
  <2>2. Single(n)'
    BY <1>3, <2>1 DEF MessageInv, Single
  <2>3. CASE n = m
    BY <1>1, <1>3, <2>1, <2>2, <2>3 DEF MessageInv
  <2>4. CASE n # m
    <3>1. \A q \in Pids : composing'[q] = n <=> composing[q] = n
      BY <1>1, <1>2, <2>1, <2>4
    <3> QED
      BY <1>1, <1>3, <2>1, <2>2, <2>4, <3>1 DEF MessageInv
  <2> QED
    BY <2>3, <2>4
<1>5. BackupsOwned'
  BY <1>1, <1>2 DEF CopyInv, BackupsOwned, ComposeFile
<1> QED
  BY <1>4, <1>5 DEF CopyInv

(* When the backup thread has ended there is no backup: what is finished   *)
(* is gone.                                                                *)
LEMMA JoinCopies ==
  ASSUME TypeInv, CopyInv, NEW p \in Pids, Join(p)
  PROVE  CopyInv'
<1> USE DEF TypeInv, TypeOK, FilesTypeOK, ThreadsTypeOK
<1> DEFINE m == composing[p]
<1>1. /\ backup[p] = "off" /\ finished' = finished \cup {m}
      /\ composing' = [composing EXCEPT ![p] = NoMsg]
      /\ UNCHANGED <<compose, draft, proc, hand, backup, uploads, server, used, failures>>
  BY DEF Join, UiStep
<1>2. m \in Msgs /\ proc[p] = "running"
  BY DEF ThreadsAgree, Join
<1> HIDE DEF m
<1>3. \A k \in Kinds, q \in Pids : \A c, n : IsCopy(k, q, c, n)' <=> IsCopy(k, q, c, n)
  BY <1>1 DEF IsCopy
<1>4. \A k \in Kinds, q \in Pids : \A c : ~IsCopy(k, q, c, m)
  <2>1. \A f \in compose : f.pid # p
    BY <1>1, <1>2 DEF CopyInv, BackupsOwned
  <2>2. \A c : ~IsCopy("compose", p, c, m)
    BY <2>1 DEF IsCopy
  <2> QED
    BY <1>2, <2>2 DEF CopyInv, MessageInv, m
<1>5. ASSUME NEW n \in Msgs
      PROVE  MessageInv(n)'
  <2>1. MessageInv(n) /\ n # NoMsg
    BY NoMsgAssumption DEF CopyInv
  <2>2. Single(n)'
    BY <1>3, <2>1 DEF MessageInv, Single
  <2>3. \A q \in Pids : composing'[q] = n => composing[q] = n /\ q # p
    BY <1>1, <2>1
  <2>4. CASE n = m
    <3>1. m \notin server /\ m \in used /\ \A q \in Pids : composing[q] = m => q = p
      BY <2>1, <2>4 DEF MessageInv, m
    <3> QED
      BY <1>1, <1>3, <1>4, <2>1, <2>2, <2>3, <2>4, <3>1 DEF MessageInv
  <2>5. CASE n # m
    BY <1>1, <1>3, <2>1, <2>2, <2>3, <2>5 DEF MessageInv
  <2> QED
    BY <2>4, <2>5
<1>6. BackupsOwned'
  BY <1>1, <1>2 DEF CopyInv, BackupsOwned, ComposeFile
<1> QED
  BY <1>5, <1>6 DEF CopyInv

(* The backup replaces the one before.                                     *)
LEMMA SaveCopies ==
  ASSUME TypeInv, CopyInv, NEW p \in Pids, Save(p)
  PROVE  CopyInv'
<1> USE DEF TypeInv, TypeOK, FilesTypeOK, ThreadsTypeOK
<1> DEFINE m == composing[p]
           new == [pid |-> p, idx |-> 0, msg |-> m]
<1>1. /\ backup[p] = "saving" /\ backup' = [backup EXCEPT ![p] = "testing"]
      /\ UNCHANGED <<draft, proc, hand, composing, uploads, server, used, finished, failures>>
  BY DEF Save, Goto, BackupStep, history
<1>2. m \in Msgs
  BY <1>1 DEF ThreadsAgree
<1>3. \A f : f \in compose' <=> f = new \/ (f \in compose /\ f.pid # p)
  BY DEF Save, Replace, ComposeFile
<1>4. new.pid = p /\ new.msg = m
  OBVIOUS
<1> HIDE DEF m, new
<1>5. ASSUME NEW n \in Msgs, NEW k \in Kinds, NEW q \in Pids, NEW c, IsCopy(k, q, c, n)'
      PROVE  \/ IsCopy(k, q, c, n) /\ ~(k = "compose" /\ q = p)
             \/ k = "compose" /\ q = p /\ c = new /\ n = m
  BY <1>1, <1>3, <1>4, <1>5 DEF IsCopy
<1>6. ASSUME NEW n \in Msgs
      PROVE  MessageInv(n)'
  <2>1. MessageInv(n)
    BY DEF CopyInv
  <2>2. CASE n = m
    <3>1. \A k \in Kinds, q \in Pids : \A c :
            IsCopy(k, q, c, n) => k = "compose" /\ q = p
      BY <2>1, <2>2 DEF MessageInv, m
    <3>2. \A k \in Kinds, q \in Pids : \A c :
            IsCopy(k, q, c, n)' => k = "compose" /\ q = p /\ c = new
      BY <1>5, <3>1
    <3>3. Single(n)'
      BY <3>2 DEF Single
    <3>4. /\ n \in used /\ n \notin finished /\ n \notin server
          /\ \A q \in Pids : composing[q] = n => q = p
      BY <2>1, <2>2 DEF MessageInv, m
    <3> QED
      BY <1>1, <3>2, <3>3, <3>4 DEF MessageInv
  <2>3. CASE n # m
    <3>1. Single(n)'
      BY <1>5, <2>1, <2>3 DEF MessageInv, Single
    <3> QED
      BY <1>1, <1>5, <2>3, <3>1, MessageKept
  <2> QED
    BY <2>2, <2>3
<1>7. BackupsOwned'
  <2>1. composing'[p] = m /\ backup'[p] # "off"
    BY <1>1 DEF m
  <2> QED
    BY <1>1, <1>3, <1>4, <2>1 DEF CopyInv, BackupsOwned, ComposeFile
<1> QED
  BY <1>6, <1>7 DEF CopyInv

(* Of the other steps none makes a copy.                                   *)
LEMMA OtherCopies ==
  ASSUME TypeInv, CopyInv, NEW p \in Pids,
         \/ Start(p) \/ StopRunning(p) \/ Notify(p) \/ Test(p) \/ BeginWait(p)
         \/ Timeout(p) \/ SpuriousWakeup(p) \/ Discard(p) \/ Quit(p) \/ Crash(p)
  PROVE  CopyInv'
<1> USE DEF TypeInv, TypeOK, FilesTypeOK, ThreadsTypeOK, CopyInv
<1>1. CASE Start(p)
  <2>1. \A m \in Msgs : MessageInv(m)'
    BY <1>1, NoNewCopies DEF Start, threads, history, IsCopy
  <2>2. BackupsOwned'
    BY <1>1, NoMsgAssumption DEF Start, threads, BackupsOwned, ComposeFile, ThreadsAgree
  <2> QED
    BY <2>1, <2>2
<1>2. CASE StopRunning(p)
  <2>1. \A m \in Msgs : MessageInv(m)'
    BY <1>2, NoNewCopies DEF StopRunning, UiStep, history, IsCopy
  <2>2. BackupsOwned'
    BY <1>2 DEF StopRunning, UiStep, BackupsOwned
  <2> QED
    BY <2>1, <2>2
<1>3. CASE Notify(p)
  <2>1. \A m \in Msgs : MessageInv(m)'
    BY <1>3, NoNewCopies DEF Notify, UiStep, history, IsCopy
  <2>2. BackupsOwned'
    BY <1>3 DEF Notify, UiStep, BackupsOwned, ComposeFile
  <2> QED
    BY <2>1, <2>2
<1>4. CASE Test(p) \/ BeginWait(p) \/ Timeout(p) \/ SpuriousWakeup(p)
  <2>0. UNCHANGED <<compose, draft, proc, hand, composing, uploads, server, history, failures>>
    BY <1>4 DEF Test, BeginWait, Timeout, SpuriousWakeup, BackupStep, history
  <2>1. \A m \in Msgs : MessageInv(m)'
    BY <2>0, NoNewCopies DEF history, IsCopy
  <2>2. \E to \in {"locking", "ending", "waiting", "saving", "testing"} :
          backup' = [backup EXCEPT ![p] = to]
    BY <1>4 DEF Test, BeginWait, Timeout, SpuriousWakeup, Goto
  <2>3. BackupsOwned'
    BY <2>0, <2>2 DEF BackupsOwned, ComposeFile
  <2> QED
    BY <2>1, <2>3
<1>5. CASE Discard(p)
  <2>0. /\ compose' = Remaining(compose, p, Alive)
        /\ UNCHANGED <<draft, proc, hand, composing, uploads, server, history, failures>>
    BY <1>5 DEF Discard, BackupStep, history
  <2>1. \A m \in Msgs : MessageInv(m)'
    BY <2>0, PopDivides, NoNewCopies DEF history, IsCopy
  <2>2. \A f \in compose' : f \in compose /\ f.pid # p /\ f.pid \in Pids
    BY <2>0, PopDivides DEF ComposeFile
  <2>3. BackupsOwned'
    BY <1>5, <2>0, <2>2 DEF Discard, Goto, BackupsOwned
  <2> QED
    BY <2>1, <2>3
<1>6. CASE Quit(p) \/ Crash(p)
  <2>0. /\ Die(p)
        /\ UNCHANGED <<compose, draft, server, used, finished, failures>>
    BY <1>6 DEF Quit, Crash, Die
  <2>1. \A k \in Kinds, q \in Pids : \A c, m : IsCopy(k, q, c, m)' => IsCopy(k, q, c, m)
    BY <2>0 DEF Die, IsCopy
  <2>2. \A m \in Msgs : MessageInv(m)'
    BY <2>0, <2>1, NoNewCopies DEF Die
  <2>3. BackupsOwned'
    BY <2>0 DEF Die, BackupsOwned, ComposeFile
  <2> QED
    BY <2>2, <2>3
<1> QED
  BY <1>1, <1>2, <1>3, <1>4, <1>5, <1>6

LEMMA CopyInvPreserved ==
  ASSUME TypeInv, CopyInv, Next
  PROVE  CopyInv'
<1>1. CASE Terminated
  BY <1>1 DEF Terminated, vars, threads, history, CopyInv, BackupsOwned, MessageInv, Single,
              IsCopy
<1> QED
  BY <1>1, InitQueueCopies, RecoverCopies, PopDraftsCopies, SubmitCopies, UploadCopies,
     StartComposeCopies, JoinCopies, SaveCopies, OtherCopies
     DEF Next, Startup, Stopping, Connected, Backup

LEMMA CopyInvAlways == Spec => [](TypeInv /\ CopyInv)
<1>1. TypeInv /\ CopyInv /\ UNCHANGED vars => TypeInv' /\ CopyInv'
  BY DEF TypeInv, TypeOK, FilesTypeOK, ThreadsTypeOK, ThreadsAgree, vars, threads, history,
         CopyInv, BackupsOwned, MessageInv, Single, IsCopy
<1> QED
  BY InitTypeInv, InitCopyInv, TypeInvPreserved, CopyInvPreserved, <1>1, PTL DEF Spec

(* Once StopComposeBackup() has returned, no directory, process or server  *)
(* has a copy of the message (ui.cpp, offlinequeue.cpp).                   *)
THEOREM FinishedIsGone == Spec => []FinishedGone
BY CopyInvAlways, CopyInvProperties, PTL

(* A message has one copy on this side at most, and none once it is on the *)
(* server, unless an upload has failed (OfflineQueue::Init, ui.cpp).       *)
THEOREM CopiesUnique == Spec => []UniqueCopy
BY CopyInvAlways, CopyInvProperties, PTL

(* Processes that start or end their composing leave alone the backup of   *)
(* one that still composes (OfflineQueue::CanProcessFileName).             *)
THEOREM BackupsHeld == Spec => BackupHeldWhileComposing
<1> DEFINE Backed(p) == \E f \in compose : f.pid = p
<1>1. ASSUME TypeInv, Next, NEW p \in Pids, ui[p] = "compose", ui'[p] = "compose", Backed(p)
      PROVE  Backed(p)'
  <2> USE DEF TypeInv, TypeOK, ThreadsTypeOK
  <2>0. /\ proc[p] = "running" /\ p \in Alive /\ backup[p] \notin {"off", "ending"}
        /\ UNCHANGED compose => Backed(p)'
    BY <1>1 DEF ThreadsAgree, Alive
  <2>1. ASSUME NEW q \in Pids, InitQueue(q) \/ Discard(q)
        PROVE  Backed(p)'
    <3>1. q # p /\ (UNCHANGED compose \/ compose' = Remaining(compose, q, Alive))
      BY <2>0, <2>1 DEF InitQueue, Discard, Goto
    <3> QED
      BY <1>1, <2>0, <3>1, PopDivides
  <2>2. ASSUME NEW q \in Pids, Save(q)
        PROVE  Backed(p)'
    <3>1. PICK f \in compose : f.pid = p
      BY <1>1
    <3>2. compose' = {g \in compose : g.pid # q \/ g.idx # 0}
                       \cup {[pid |-> q, idx |-> 0, msg |-> composing[q]]}
      BY <2>2 DEF Save, Replace
    <3>3. CASE q = p
      BY <3>2, <3>3, [pid |-> q, idx |-> 0, msg |-> composing[q]].pid = q
    <3>4. CASE q # p
      BY <3>1, <3>2, <3>4
    <3> QED
      BY <3>3, <3>4
  <2>3. ASSUME NEW q \in Pids,
               \/ Start(q) \/ Recover(q) \/ StopRunning(q) \/ Stopping(q) \/ Connected(q)
               \/ Test(q) \/ BeginWait(q) \/ Timeout(q) \/ SpuriousWakeup(q) \/ Upload(q)
        PROVE  Backed(p)'
    BY <2>0, <2>3
       DEF Start, Recover, StopRunning, Stopping, Notify, Join, Connected, PopDrafts, Submit,
           UiStep, Test, BeginWait, Timeout, SpuriousWakeup, Upload, UploadOk, UploadFailed,
           UploadStep
  <2>4. ASSUME NEW q \in Pids, Quit(q) \/ Crash(q) \/ \E m \in Msgs : StartCompose(q, m)
        PROVE  Backed(p)'
    BY <2>0, <2>4 DEF Quit, Crash, Die, StartCompose, UiStep
  <2>5. CASE Terminated
    BY <2>0, <2>5 DEF Terminated, vars
  <2> QED
    BY <1>1, <2>1, <2>2, <2>3, <2>4, <2>5 DEF Next, Startup, Backup
<1>2. TypeInv /\ [Next]_vars
        => [\A p \in Pids :
              ui[p] = "compose" /\ ui'[p] = "compose" /\ (\E f \in compose : f.pid = p)
                => \E f \in compose' : f.pid = p]_vars
  BY <1>1
<1> QED
  BY <1>2, CopyInvAlways, PTL DEF Spec, BackupHeldWhileComposing

=============================================================================
