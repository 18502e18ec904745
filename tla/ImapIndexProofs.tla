---------------------------- MODULE ImapIndexProofs ----------------------------
(***************************************************************************)
(* Proofs about the search index and the cache that it mirrors.            *)
(*                                                                         *)
(* When the index is at rest it is said to agree with the cache.  Before,  *)
(* each message with a body is on its way: a notification about its body   *)
(* is in the hand of the index thread, in the queue or about to be given,  *)
(* and what is told after that does not remove it (Coming).  Nothing needs *)
(* to be known of headers: who is looked at without one is passed over.    *)
(***************************************************************************)
EXTENDS ImapIndex, FiniteSetTheorems, NaturalsInduction, TLAPS

SyncLabels == {"list", "uids", "bodys", "enqueue"}
BusyLabels == {"handle", "header", "commit"}

(* The bodies in the cache are of messages with a uid that was given.      *)
CacheInv ==
  /\ server \subseteq 1 .. given
  /\ uids \subseteq 1 .. given
  /\ bodys \subseteq uids

(* A notification about bodies is about some; a header is read for one.    *)
NotEmpty(n) == n.kind = "SetBodys" => n.uids # {}
QueueInv ==
  /\ \A i \in 1 .. Len(queue) : NotEmpty(queue[i])
  /\ \A i \in 1 .. Len(todo) : NotEmpty(todo[i])
  /\ pc = "header" => hand.kind = "SetBodys"

(* What the writable database has and the last commit has not, is yet to   *)
(* be committed: after the notification in hand, or one in the queue.  Off,*)
(* the program has no memory, and who quits may do so once more.           *)
CommitInv ==
  /\ pc \in SyncLabels \cup BusyLabels => syncDone
  /\ pc \in BusyLabels /\ ~last => queue # <<>>
  /\ docs # committed =>
       syncDone /\ (pc \in BusyLabels \/ (pc = "wait" /\ queue # <<>>))
  /\ pc = "off" => ~running /\ ~syncDone /\ queue = <<>> /\ todo = <<>>
  /\ ~running /\ pc # "off" => restarts < MaxRestarts
  /\ pc # "header" => content = NoDoc

TypeInv == TypeOK /\ CacheInv /\ QueueInv /\ CommitInv

(* Under its validity, the uid will not be in the cache again.             *)
Gone(u) == u \in 1 .. given /\ u \notin server /\ u \notin bodys

(* What was indexed under the validity of the folder is cached, or gone.   *)
Held(d, u) == d <= valid /\ (d = valid => u \in bodys \/ Gone(u))
HeldInv ==
  /\ \A u \in Uids : Held(docs[u], u) /\ Held(committed[u], u)
  /\ pc = "header" => Held(content, Current)

(* A document that has outlived its validity is counted, or the folder is  *)
(* yet to leave the index.                                                 *)
Leaves(n) == n.kind = "SetFolders" /\ n.uids = {}
LeavesLater ==
  \/ \E i \in 1 .. Len(queue) : Leaves(queue[i])
  \/ \E i \in 1 .. Len(todo) : Leaves(todo[i])
StaleInv ==
  /\ pc # "off" => \A u \in Uids :
       docs[u] \in {NoDoc, valid} \/ u \in outlived \/ LeavesLater
         \/ (pc = "handle" /\ Leaves(hand))
  /\ pc = "header" => content \in {NoDoc, valid} \/ LeavesLater

(* A notification after which a message has no document.                   *)
Removes(n, u) ==
  \/ n.kind = "SetFolders" /\ u \notin n.uids
  \/ n.kind = "SetUids" /\ n.uids # {} /\ u \notin n.uids
  \/ n.kind = "DeleteUids" /\ u \in n.uids
Adds(n, u) == n.kind = "SetBodys" /\ u \in n.uids
Clear(s, u) == \A i \in 1 .. Len(s) : ~Removes(s[i], u)
Queued(s, u) ==
  \E i \in 1 .. Len(s) : Adds(s[i], u) /\ \A j \in i + 1 .. Len(s) : ~Removes(s[j], u)

(* A body in the cache is not about to be removed, by what is told last.   *)
TodoInv == \A u \in bodys : Clear(todo, u)

(* A document comes, for what the thread has not in hand and for what it   *)
(* has.                                                                    *)
ComesLater(u) == Queued(todo, u) \/ Queued(queue, u)
InHand(u) == pc \in {"handle", "header"} /\ Adds(hand, u)
Coming(u) == ComesLater(u) \/ (Clear(queue, u) /\ InHand(u))
Stays(u) == docs[u] = valid /\ Clear(queue, u) /\ ~(pc = "handle" /\ Removes(hand, u))

(* Until the synchronisation is done: documents about to be removed are not*)
(* those of bodies in the cache, and a body that was not found is told of. *)
SyncInv ==
  (~syncDone \/ pc \in SyncLabels) =>
    /\ \A u \in bodys : Clear(queue, u) \/ docs[u] # valid
    /\ pc \in {"uids", "bodys", "enqueue"} => listed = {u \in Uids : docs[u] # NoDoc}
    /\ pc \in {"bodys", "enqueue"} =>
         \A u \in bodys : u \in found \/ (ComesLater(u) /\ docs[u] # valid)

(* From then on: each body is passed over, indexed, or on its way.         *)
FoundInv ==
  (syncDone /\ pc \notin SyncLabels \cup {"off"}) =>
    /\ \A u \in bodys : u \in passed \cup outlived \/ Stays(u) \/ Coming(u)
    /\ pc = "header" /\ content = NoDoc /\ Current \in bodys => ComesLater(Current)

IndexInv == HeldInv /\ StaleInv /\ TodoInv /\ SyncInv /\ FoundInv

-----------------------------------------------------------------------------
(* Sequences of notifications.                                             *)

LEMMA TailOfQueue ==
  ASSUME NEW s \in Seq(Notify), s # <<>>
  PROVE  /\ Head(s) \in Notify /\ Head(s) = s[1]
         /\ Tail(s) \in Seq(Notify) /\ Len(Tail(s)) = Len(s) - 1
         /\ Len(s) \in Nat /\ 1 \in 1 .. Len(s)
         /\ \A i \in 1 .. Len(Tail(s)) : i + 1 \in 1 .. Len(s) /\ Tail(s)[i] = s[i + 1]
         /\ \A i \in 2 .. Len(s) : i - 1 \in 1 .. Len(Tail(s)) /\ Tail(s)[i - 1] = s[i]
OBVIOUS

LEMMA ClearTail ==
  ASSUME NEW s \in Seq(Notify), s # <<>>, NEW u, Clear(s, u)
  PROVE  Clear(Tail(s), u) /\ ~Removes(Head(s), u)
BY TailOfQueue DEF Clear

LEMMA QueuedTail ==
  ASSUME NEW s \in Seq(Notify), s # <<>>, NEW u, Queued(s, u)
  PROVE  Queued(Tail(s), u) \/ (Adds(Head(s), u) /\ Clear(Tail(s), u))
<1>1. PICK i \in 1 .. Len(s) : Adds(s[i], u) /\ \A k \in i + 1 .. Len(s) : ~Removes(s[k], u)
  BY DEF Queued
<1>2. CASE i = 1
  <2>1. \A k \in 1 .. Len(Tail(s)) : k + 1 \in 2 .. Len(s)
    BY TailOfQueue
  <2> QED
    BY <1>1, <1>2, <2>1, TailOfQueue DEF Clear
<1>3. CASE i # 1
  <2>1. i - 1 \in 1 .. Len(Tail(s)) /\ Adds(Tail(s)[i - 1], u)
    BY <1>1, <1>3, TailOfQueue
  <2>2. ASSUME NEW k \in (i - 1) + 1 .. Len(Tail(s))
        PROVE  ~Removes(Tail(s)[k], u)
    <3>1. k \in 1 .. Len(Tail(s)) /\ k + 1 \in i + 1 .. Len(s)
      BY <2>1, TailOfQueue
    <3> QED
      BY <1>1, <3>1, TailOfQueue
  <2> QED
    BY <2>1, <2>2 DEF Queued
<1> QED
  BY <1>2, <1>3

LEMMA EndOfQueue ==
  ASSUME NEW s \in Seq(Notify), NEW n \in Notify
  PROVE  /\ Append(s, n) \in Seq(Notify) /\ Append(s, n) # <<>>
         /\ Len(s) \in Nat /\ Len(Append(s, n)) = Len(s) + 1
         /\ \A i \in 1 .. Len(s) : Append(s, n)[i] = s[i]
         /\ Append(s, n)[Len(s) + 1] = n
OBVIOUS

LEMMA ClearAppend ==
  ASSUME NEW s \in Seq(Notify), NEW n \in Notify, NEW u, Clear(s, u), ~Removes(n, u)
  PROVE  Clear(Append(s, n), u)
BY EndOfQueue DEF Clear

LEMMA QueuedAppend ==
  ASSUME NEW s \in Seq(Notify), NEW n \in Notify, NEW u,
         Adds(n, u) \/ (Queued(s, u) /\ ~Removes(n, u))
  PROVE  Queued(Append(s, n), u)
<1>1. CASE Adds(n, u)
  <2>1. Len(s) + 1 \in 1 .. Len(Append(s, n)) /\ Adds(Append(s, n)[Len(s) + 1], u)
    BY <1>1, EndOfQueue
  <2>2. (Len(s) + 1) + 1 .. Len(Append(s, n)) = {}
    BY EndOfQueue
  <2> QED
    BY <2>1, <2>2 DEF Queued
<1>2. CASE Queued(s, u) /\ ~Removes(n, u)
  <2>1. PICK i \in 1 .. Len(s) : Adds(s[i], u) /\ \A k \in i + 1 .. Len(s) : ~Removes(s[k], u)
    BY <1>2 DEF Queued
  <2>2. i \in 1 .. Len(Append(s, n)) /\ Adds(Append(s, n)[i], u)
    BY <2>1, EndOfQueue
  <2>3. ASSUME NEW k \in i + 1 .. Len(Append(s, n))
        PROVE  ~Removes(Append(s, n)[k], u)
    <3>1. k \in 1 .. Len(s) \/ k = Len(s) + 1
      BY EndOfQueue
    <3> QED
      BY <1>2, <2>1, <3>1, EndOfQueue
  <2> QED
    BY <2>2, <2>3 DEF Queued
<1> QED
  BY <1>1, <1>2

(* What one notification alone does.                                       *)
LEMMA OneNotify ==
  ASSUME NEW n \in Notify, NEW u
  PROVE  /\ <<n>> \in Seq(Notify)
         /\ Len(<<n>>) = 1 /\ <<n>>[1] = n
         /\ ~Removes(n, u) => Clear(<<n>>, u)
         /\ Adds(n, u) => Queued(<<n>>, u)
<1>1. <<n>> \in Seq(Notify) /\ Len(<<n>>) = 1 /\ <<n>>[1] = n
  OBVIOUS
<1>2. \A i \in 1 .. Len(<<n>>) : i = 1
  BY <1>1
<1>3. 1 \in 1 .. Len(<<n>>) /\ 1 + 1 .. Len(<<n>>) = {}
  BY <1>1
<1> QED
  BY <1>1, <1>2, <1>3 DEF Clear, Queued

LEMMA IfAnyAppends ==
  ASSUME NEW q \in Seq(Notify), NEW kind \in Kinds, NEW S \in SUBSET Uids
  PROVE  /\ Notification(kind, S) \in Notify
         /\ S = {} => q \o IfAny(kind, S) = q
         /\ S # {} => q \o IfAny(kind, S) = Append(q, Notification(kind, S))
         /\ q \o IfAny(kind, S) \in Seq(Notify)
<1>1. Notification(kind, S) \in Notify
  BY DEF Notification, Notify
<1>2. S = {} => q \o IfAny(kind, S) = q
  BY DEF IfAny
<1>3. S # {} => q \o IfAny(kind, S) = Append(q, Notification(kind, S))
  BY <1>1 DEF IfAny
<1>4. Append(q, Notification(kind, S)) \in Seq(Notify)
  BY <1>1
<1> QED
  BY <1>1, <1>2, <1>3, <1>4

(* The lowest uid of a notification is one of its uids.                    *)
LEMMA CurrentIsInHand ==
  ASSUME hand.uids \subseteq Uids, hand.uids # {}
  PROVE  Current \in hand.uids
<1>1. hand.uids \subseteq Nat
  BY BoundsAssumption DEF Uids
<1>2. PICK u \in hand.uids : \A v \in hand.uids : ~ (<<v, u>> \in OpToRel(<, Nat))
  BY <1>1, NatLessThanWellFounded, WFMin
<1>3. ASSUME NEW v \in hand.uids
      PROVE  u <= v
  <2>1. u \in Nat /\ v \in Nat
    BY <1>1
  <2>2. ~ (v < u)
    BY <1>2, <2>1 DEF OpToRel
  <2> QED
    BY <2>1, <2>2
<1> QED
  BY <1>3 DEF Current

-----------------------------------------------------------------------------
(* Types.                                                                  *)

LEMMA InitTypeInv == Init => TypeInv
<1> SUFFICES ASSUME Init
             PROVE  TypeInv
  OBVIOUS
<1>1. TypeOK
  <2>1. docs \in [Uids -> Docs] /\ committed \in [Uids -> Docs]
    BY BoundsAssumption DEF Init, NoDoc, Docs
  <2>2. hand \in Notify /\ hand.kind = "SetUids"
    BY DEF Init, NoNotify, Notification, Notify, Kinds
  <2>3. /\ content \in Docs /\ valid \in 1 .. MaxValidity
        /\ given \in 0 .. MaxUid /\ restarts \in 0 .. MaxRestarts
    BY BoundsAssumption DEF Docs, NoDoc, Init
  <2>4. todo \in Seq(Notify) /\ queue \in Seq(Notify)
    BY DEF Init
  <2> QED
    BY <2>1, <2>2, <2>3, <2>4 DEF Init, TypeOK
<1>2. CacheInv /\ QueueInv /\ CommitInv
  BY DEF Init, CacheInv, QueueInv, CommitInv, SyncLabels, BusyLabels
<1> QED
  BY <1>1, <1>2 DEF TypeInv

LEMMA Numbers ==
  ASSUME TypeInv
  PROVE  /\ given \in Nat /\ 1 .. given \subseteq Uids
         /\ Uids \subseteq Nat \ {0}
         /\ valid \in Nat \ {0} /\ valid \in Docs
         /\ NoDoc \in Docs /\ Docs \subseteq Nat /\ NoDoc # valid
BY BoundsAssumption DEF TypeInv, TypeOK, Uids, Docs, NoDoc

LEMMA OnlyOfUids ==
  ASSUME NEW kind \in Kinds, NEW S \in SUBSET Uids
  PROVE  /\ Notification(kind, S) \in Notify
         /\ Notification(kind, S).kind = kind /\ Notification(kind, S).uids = S
BY DEF Notification, Notify

LEMMA ServerTypes ==
  ASSUME TypeInv, Server
  PROVE  TypeInv'
<1> USE DEF serverVars, cacheVars, processVars, syncVars, threadVars, indexVars, ghostVars
<1>1. UNCHANGED <<valid, cacheVars, processVars, syncDone, queue, running, syncVars,
                  threadVars, indexVars, ghostVars, restarts>>
  BY DEF Server, NewMail, MailVanishes
<1>2. /\ given' \in 0 .. MaxUid /\ server' \subseteq 1 .. given'
      /\ 1 .. given \subseteq 1 .. given' /\ 1 .. given' \subseteq Uids
  <2>1. CASE NewMail
    <3>1. given \in Nat /\ given' = given + 1 /\ given < MaxUid
      BY <2>1, Numbers DEF NewMail
    <3> QED
      BY <2>1, <3>1, BoundsAssumption DEF TypeInv, CacheInv, NewMail, Uids
  <2>2. CASE \E u \in Uids : MailVanishes(u)
    BY <2>2, Numbers DEF TypeInv, TypeOK, CacheInv, MailVanishes
  <2> QED
    BY <2>1, <2>2 DEF Server
<1>3. TypeOK'
  BY <1>1, <1>2 DEF TypeInv, TypeOK
<1>4. CacheInv'
  BY <1>1, <1>2 DEF TypeInv, CacheInv
<1>5. QueueInv' /\ CommitInv'
  BY <1>1 DEF TypeInv, QueueInv, CommitInv, SyncLabels, BusyLabels
<1> QED
  BY <1>3, <1>4, <1>5 DEF TypeInv

LEMMA FetchHeadersTypes ==
  ASSUME TypeInv, NEW wanted \in SUBSET uids, FetchHeaders(wanted)
  PROVE  TypeInv'
<1> USE DEF TypeInv, serverVars, cacheVars, processVars, syncVars, threadVars, indexVars, ghostVars
<1>1. TypeOK'
  BY Numbers DEF TypeOK, FetchHeaders, Active
<1>2. CacheInv'
  BY Numbers DEF CacheInv, FetchHeaders, Active
<1>3. QueueInv'
  BY DEF QueueInv, FetchHeaders, Active
<1>4. CommitInv'
  BY DEF TypeOK, CommitInv, SyncLabels, BusyLabels, FetchHeaders, Active
<1> QED
  BY <1>1, <1>2, <1>3, <1>4

LEMMA IdleTypes ==
  ASSUME TypeInv, GoIdle \/ LeaveIdle \/ Quit
  PROVE  TypeInv'
<1> USE DEF TypeInv, serverVars, cacheVars, processVars, syncVars, threadVars, indexVars, ghostVars
<1>1. TypeOK'
  BY Numbers DEF TypeOK, GoIdle, LeaveIdle, Quit
<1>2. CacheInv'
  BY Numbers DEF CacheInv, GoIdle, LeaveIdle, Quit
<1>3. QueueInv'
  BY DEF QueueInv, GoIdle, LeaveIdle, Quit
<1>4. CommitInv'
  BY DEF TypeOK, CommitInv, SyncLabels, BusyLabels, GoIdle, LeaveIdle, Quit
<1> QED
  BY <1>1, <1>2, <1>3, <1>4

LEMMA StartSyncTypes ==
  ASSUME TypeInv, StartSync
  PROVE  TypeInv'
<1> USE DEF TypeInv, serverVars, cacheVars, processVars, syncVars, threadVars, indexVars, ghostVars
<1>1. TypeOK'
  BY Numbers DEF TypeOK, StartSync
<1>2. CacheInv'
  BY Numbers DEF CacheInv, StartSync
<1>3. QueueInv'
  BY DEF QueueInv, StartSync
<1>4. CommitInv'
  BY DEF TypeOK, CommitInv, SyncLabels, BusyLabels, StartSync
<1> QED
  BY <1>1, <1>2, <1>3, <1>4

LEMMA SynchroniseTypes ==
  ASSUME TypeInv, ListDocs \/ ReadUids \/ ReadBodyUids
  PROVE  TypeInv'
<1> USE DEF TypeInv, serverVars, cacheVars, processVars, syncVars, threadVars, indexVars, ghostVars
<1>1. TypeOK'
  BY Numbers DEF TypeOK, ListDocs, ReadUids, ReadBodyUids
<1>2. CacheInv'
  BY Numbers DEF CacheInv, ListDocs, ReadUids, ReadBodyUids
<1>3. QueueInv'
  BY DEF QueueInv, ListDocs, ReadUids, ReadBodyUids
<1>4. CommitInv'
  BY DEF TypeOK, CommitInv, SyncLabels, BusyLabels, ListDocs, ReadUids, ReadBodyUids
<1> QED
  BY <1>1, <1>2, <1>3, <1>4

LEMMA HandleSetFoldersTypes ==
  ASSUME TypeInv, HandleSetFolders
  PROVE  TypeInv'
<1> USE DEF TypeInv, serverVars, cacheVars, processVars, syncVars, threadVars, indexVars, ghostVars
<1>1. TypeOK'
  BY Numbers DEF TypeOK, HandleSetFolders, KeepOnly
<1>2. CacheInv'
  BY Numbers DEF CacheInv, HandleSetFolders, KeepOnly
<1>3. QueueInv'
  BY DEF QueueInv, HandleSetFolders, KeepOnly
<1>4. CommitInv'
  BY DEF TypeOK, CommitInv, SyncLabels, BusyLabels, HandleSetFolders, KeepOnly
<1> QED
  BY <1>1, <1>2, <1>3, <1>4

LEMMA HandleSetUidsTypes ==
  ASSUME TypeInv, HandleSetUids
  PROVE  TypeInv'
<1> USE DEF TypeInv, serverVars, cacheVars, processVars, syncVars, threadVars, indexVars, ghostVars
<1>1. TypeOK'
  BY Numbers DEF TypeOK, HandleSetUids, KeepOnly
<1>2. CacheInv'
  BY Numbers DEF CacheInv, HandleSetUids, KeepOnly
<1>3. QueueInv'
  BY DEF QueueInv, HandleSetUids, KeepOnly
<1>4. CommitInv'
  BY DEF TypeOK, CommitInv, SyncLabels, BusyLabels, HandleSetUids, KeepOnly
<1> QED
  BY <1>1, <1>2, <1>3, <1>4

LEMMA HandleDeleteUidsTypes ==
  ASSUME TypeInv, HandleDeleteUids
  PROVE  TypeInv'
<1> USE DEF TypeInv, serverVars, cacheVars, processVars, syncVars, threadVars, indexVars, ghostVars
<1>1. TypeOK'
  BY Numbers DEF TypeOK, HandleDeleteUids
<1>2. CacheInv'
  BY Numbers DEF CacheInv, HandleDeleteUids
<1>3. QueueInv'
  BY DEF QueueInv, HandleDeleteUids
<1>4. CommitInv'
  BY DEF TypeOK, CommitInv, SyncLabels, BusyLabels, HandleDeleteUids
<1> QED
  BY <1>1, <1>2, <1>3, <1>4

LEMMA CommitTypes ==
  ASSUME TypeInv, Commit \/ CommitLater
  PROVE  TypeInv'
<1> USE DEF TypeInv, serverVars, cacheVars, processVars, syncVars, threadVars, indexVars, ghostVars
<1>1. TypeOK'
  BY Numbers DEF TypeOK, Commit, CommitLater, NoNotify, Notification, Notify, Kinds
<1>2. CacheInv'
  BY Numbers DEF CacheInv, Commit, CommitLater, NoNotify, Notification, Notify, Kinds
<1>3. QueueInv'
  BY DEF QueueInv, Commit, CommitLater, NoNotify, Notification, Notify, Kinds
<1>4. CommitInv'
  BY DEF TypeOK, CommitInv, SyncLabels, BusyLabels, Commit, CommitLater, NoNotify, Notification, Notify, Kinds
<1> QED
  BY <1>1, <1>2, <1>3, <1>4

LEMMA StopTypes ==
  ASSUME TypeInv, Exit \/ Crash
  PROVE  TypeInv'
<1> USE DEF serverVars, cacheVars, processVars, syncVars, threadVars, indexVars, ghostVars
<1>1. LoseMemory /\ committed' \in {committed, docs}
      /\ UNCHANGED <<serverVars, cacheVars, ghostVars>>
  BY DEF Exit, Crash
<1>2. NoNotify \in Notify /\ NoNotify.kind = "SetUids"
  BY DEF NoNotify, Notification, Notify, Kinds
<1>3. restarts' \in 0 .. MaxRestarts
  BY BoundsAssumption DEF TypeInv, TypeOK, CommitInv, LoseMemory, Exit, Crash
<1>4. TypeOK'
  <2>1. docs' \in [Uids -> Docs] /\ committed' \in [Uids -> Docs]
    BY <1>1 DEF TypeInv, TypeOK, LoseMemory
  <2>2. /\ todo' \in Seq(Notify) /\ queue' \in Seq(Notify)
        /\ content' \in Docs /\ pc' = "off" /\ hand' = NoNotify
    BY <1>1, Numbers DEF LoseMemory
  <2> QED
    BY <1>1, <1>2, <1>3, <2>1, <2>2 DEF TypeInv, TypeOK, LoseMemory
<1>5. CacheInv' /\ QueueInv' /\ CommitInv'
  BY <1>1 DEF TypeInv, CacheInv, QueueInv, CommitInv, LoseMemory, SyncLabels, BusyLabels
<1> QED
  BY <1>4, <1>5 DEF TypeInv

LEMMA StartTypes ==
  ASSUME TypeInv, Start
  PROVE  TypeInv'
<1> USE DEF TypeInv, serverVars, cacheVars, processVars, syncVars, threadVars, indexVars, ghostVars
<1>1. TypeOK'
  BY Numbers DEF TypeOK, Start
<1>2. CacheInv'
  BY Numbers DEF CacheInv, Start
<1>3. QueueInv'
  BY DEF QueueInv, Start
<1>4. CommitInv'
  BY DEF TypeOK, CommitInv, SyncLabels, BusyLabels, Start
<1> QED
  BY <1>1, <1>2, <1>3, <1>4

LEMMA FetchUidsTypes ==
  ASSUME TypeInv, FetchUids
  PROVE  TypeInv'
<1> USE DEF serverVars, syncVars, indexVars, threadVars, ghostVars
<1>1. server \in SUBSET Uids
  BY DEF TypeInv, TypeOK
<1>2. PICK n \in Notify : n = Notification("SetUids", server)
  BY <1>1, OnlyOfUids DEF Kinds
<1>3. n.kind = "SetUids" /\ todo' = <<n>>
  BY <1>1, <1>2, OnlyOfUids DEF FetchUids, Kinds
<1>4. TypeOK'
  BY <1>1, <1>3, OneNotify DEF TypeInv, TypeOK, FetchUids
<1>5. CacheInv'
  BY DEF TypeInv, CacheInv, FetchUids
<1>6. QueueInv'
  BY <1>3, OneNotify DEF TypeInv, QueueInv, NotEmpty, FetchUids
<1>7. CommitInv'
  BY DEF TypeInv, CommitInv, SyncLabels, BusyLabels, FetchUids, Active
<1> QED
  BY <1>4, <1>5, <1>6, <1>7 DEF TypeInv

LEMMA FetchBodysTypes ==
  ASSUME TypeInv, NEW wanted \in SUBSET uids, FetchBodys(wanted)
  PROVE  TypeInv'
<1> USE DEF serverVars, syncVars, indexVars, threadVars, ghostVars
<1> DEFINE fetched == (wanted \ bodys) \cap server
<1>1. fetched \in SUBSET Uids /\ fetched # {} /\ bodys' = bodys \cup fetched
  BY DEF TypeInv, TypeOK, FetchBodys
<1>2. PICK n \in Notify : n = Notification("SetBodys", fetched)
  BY <1>1, OnlyOfUids DEF Kinds
<1>3. n.kind = "SetBodys" /\ n.uids # {} /\ todo' = <<n>>
  BY <1>1, <1>2, OnlyOfUids DEF FetchBodys, Kinds
<1>4. TypeOK'
  BY <1>1, <1>3, OneNotify DEF TypeInv, TypeOK, FetchBodys
<1>5. CacheInv'
  BY DEF TypeInv, CacheInv, FetchBodys
<1>6. QueueInv'
  BY <1>3, OneNotify DEF TypeInv, QueueInv, NotEmpty, FetchBodys
<1>7. CommitInv'
  BY DEF TypeInv, CommitInv, SyncLabels, BusyLabels, FetchBodys, Active
<1> QED
  BY <1>4, <1>5, <1>6, <1>7 DEF TypeInv

LEMMA RemoveMessagesTypes ==
  ASSUME TypeInv, NEW gone \in SUBSET uids, RemoveMessages(gone)
  PROVE  TypeInv'
<1> USE DEF serverVars, syncVars, indexVars, threadVars, ghostVars
<1>1. gone \in SUBSET Uids
  BY DEF TypeInv, TypeOK
<1>2. PICK n \in Notify : n = Notification("DeleteUids", gone)
  BY <1>1, OnlyOfUids DEF Kinds
<1>3. n.kind = "DeleteUids" /\ todo' = <<n>>
  BY <1>1, <1>2, OnlyOfUids DEF RemoveMessages, Kinds
<1>4. TypeOK'
  BY <1>1, <1>3, OneNotify DEF TypeInv, TypeOK, RemoveMessages
<1>5. CacheInv'
  BY DEF TypeInv, CacheInv, RemoveMessages
<1>6. QueueInv'
  BY <1>3, OneNotify DEF TypeInv, QueueInv, NotEmpty, RemoveMessages
<1>7. CommitInv'
  BY DEF TypeInv, CommitInv, SyncLabels, BusyLabels, RemoveMessages, Active
<1> QED
  BY <1>4, <1>5, <1>6, <1>7 DEF TypeInv

(* The server gives its messages the first uids again.                     *)
LEMMA RenumberTypes ==
  ASSUME TypeInv, Renumber
  PROVE  TypeInv'
<1> USE DEF syncVars, indexVars, threadVars, ghostVars
<1>1. Cardinality(server) \in 0 .. MaxUid /\ 1 .. Cardinality(server) \subseteq Uids
  <2>1. IsFiniteSet(Uids) /\ Cardinality(Uids) = MaxUid
    BY FS_Interval, BoundsAssumption DEF Uids
  <2>2. IsFiniteSet(server) /\ Cardinality(server) <= MaxUid
    BY <2>1, FS_Subset DEF TypeInv, TypeOK
  <2>3. Cardinality(server) \in Nat
    BY <2>2, FS_CardinalityType
  <2> QED
    BY <2>2, <2>3, BoundsAssumption DEF Uids
<1>2. PICK a \in Notify, b \in Notify :
        /\ a.kind = "SetFolders" /\ b.kind = "SetFolders"
        /\ a = Notification("SetFolders", {}) /\ b = Notification("SetFolders", Uids)
  BY OnlyOfUids DEF Kinds
<1>3. todo' = <<a, b>> /\ <<a, b>> \in Seq(Notify) /\ Len(<<a, b>>) = 2
  BY <1>2 DEF Renumber
<1>4. valid' \in 1 .. MaxValidity
  BY BoundsAssumption DEF TypeInv, TypeOK, Renumber
<1>5. TypeOK'
  BY <1>1, <1>3, <1>4 DEF TypeInv, TypeOK, Renumber
<1>6. CacheInv'
  BY DEF CacheInv, Renumber
<1>7. QueueInv'
  <2>1. \A i \in 1 .. Len(todo') : todo'[i] = a \/ todo'[i] = b
    BY <1>3
  <2> QED
    BY <1>2, <2>1 DEF TypeInv, QueueInv, NotEmpty, Renumber
<1>8. CommitInv'
  BY DEF TypeInv, CommitInv, SyncLabels, BusyLabels, Renumber, Active
<1> QED
  BY <1>5, <1>6, <1>7, <1>8 DEF TypeInv

LEMMA PushTypes ==
  ASSUME TypeInv, Push
  PROVE  TypeInv'
<1> USE DEF serverVars, cacheVars, syncVars, indexVars, threadVars, ghostVars
<1>1. todo \in Seq(Notify) /\ queue \in Seq(Notify) /\ todo # <<>>
  BY DEF TypeInv, TypeOK, Push
<1>2. Head(todo) \in Notify /\ NotEmpty(Head(todo)) /\ Tail(todo) \in Seq(Notify)
      /\ \A i \in 1 .. Len(Tail(todo)) : NotEmpty(Tail(todo)[i])
  BY <1>1, TailOfQueue DEF TypeInv, QueueInv
<1>3. todo' = Tail(todo) /\ queue' \in {queue, Append(queue, Head(todo))}
  BY DEF Push
<1>4. queue' \in Seq(Notify) /\ (queue # <<>> => queue' # <<>>)
      /\ \A i \in 1 .. Len(queue') : NotEmpty(queue'[i])
  <2>1. CASE queue' = queue
    BY <1>1, <2>1 DEF TypeInv, QueueInv
  <2>2. CASE queue' = Append(queue, Head(todo))
    <3>1. \A i \in 1 .. Len(queue') : i \in 1 .. Len(queue) \/ i = Len(queue) + 1
      BY <1>1, <1>2, <2>2, EndOfQueue
    <3> QED
      BY <1>1, <1>2, <2>2, <3>1, EndOfQueue DEF TypeInv, QueueInv
  <2> QED
    BY <1>3, <2>1, <2>2
<1>5. TypeOK'
  BY <1>2, <1>3, <1>4 DEF TypeInv, TypeOK, Push
<1>6. CacheInv' /\ QueueInv'
  BY <1>2, <1>3, <1>4 DEF TypeInv, CacheInv, QueueInv, Push
<1>7. CommitInv'
  BY <1>4 DEF TypeInv, CommitInv, SyncLabels, BusyLabels, Push
<1> QED
  BY <1>5, <1>6, <1>7 DEF TypeInv

(* The synchronisation appends what it has found.                          *)
LEMMA SyncAppends ==
  ASSUME TypeInv, EnqueueSync
  PROVE  LET q == queue \o IfAny("SetBodys", found \ listed) IN
         /\ q \in Seq(Notify) /\ queue' \in Seq(Notify)
         /\ q = queue \/ /\ q = Append(queue, Notification("SetBodys", found \ listed))
                         /\ found \ listed # {}
         /\ \/ queue' = q
            \/ queue' = Append(q, Notification("DeleteUids", listed \ found))
         /\ found \ listed \in SUBSET Uids /\ listed \ found \in SUBSET Uids
         /\ queue \in Seq(Notify)
<1> DEFINE q == queue \o IfAny("SetBodys", found \ listed)
<1>1. /\ queue \in Seq(Notify)
      /\ found \ listed \in SUBSET Uids /\ listed \ found \in SUBSET Uids
  BY DEF TypeInv, TypeOK
<1>2. q \in Seq(Notify)
      /\ \/ q = queue
         \/ q = Append(queue, Notification("SetBodys", found \ listed)) /\ found \ listed # {}
  BY <1>1, IfAnyAppends DEF Kinds
<1>3. queue' = q \o IfAny("DeleteUids", listed \ found)
  BY DEF EnqueueSync
<1> HIDE DEF q
<1>4. /\ queue' \in Seq(Notify)
      /\ queue' = q \/ queue' = Append(q, Notification("DeleteUids", listed \ found))
  BY <1>1, <1>2, <1>3, IfAnyAppends DEF Kinds
<1> QED
  BY <1>1, <1>2, <1>4 DEF q

LEMMA EnqueueSyncTypes ==
  ASSUME TypeInv, EnqueueSync
  PROVE  TypeInv'
<1> USE DEF serverVars, cacheVars, processVars, indexVars, ghostVars
<1> DEFINE q == queue \o IfAny("SetBodys", found \ listed)
<1>1. /\ q \in Seq(Notify) /\ queue' \in Seq(Notify) /\ queue \in Seq(Notify)
      /\ q = queue \/ /\ q = Append(queue, Notification("SetBodys", found \ listed))
                      /\ found \ listed # {}
      /\ \/ queue' = q
         \/ queue' = Append(q, Notification("DeleteUids", listed \ found))
      /\ found \ listed \in SUBSET Uids /\ listed \ found \in SUBSET Uids
  BY SyncAppends
<1> HIDE DEF q
<1>2. ASSUME NEW s \in Seq(Notify), NEW n \in Notify, NotEmpty(n),
             \A i \in 1 .. Len(s) : NotEmpty(s[i])
      PROVE  \A i \in 1 .. Len(Append(s, n)) : NotEmpty(Append(s, n)[i])
  <2>1. \A i \in 1 .. Len(Append(s, n)) : i \in 1 .. Len(s) \/ i = Len(s) + 1
    BY EndOfQueue
  <2> QED
    BY <1>2, <2>1, EndOfQueue
<1>3. \A i \in 1 .. Len(q) : NotEmpty(q[i])
  <2>1. \A i \in 1 .. Len(queue) : NotEmpty(queue[i])
    BY DEF TypeInv, QueueInv
  <2>2. found \ listed # {} => /\ NotEmpty(Notification("SetBodys", found \ listed))
                               /\ Notification("SetBodys", found \ listed) \in Notify
    BY <1>1, OnlyOfUids DEF NotEmpty, Kinds
  <2> QED
    BY <1>1, <1>2, <2>1, <2>2
<1>4. \A i \in 1 .. Len(queue') : NotEmpty(queue'[i])
  <2>1. /\ NotEmpty(Notification("DeleteUids", listed \ found))
        /\ Notification("DeleteUids", listed \ found) \in Notify
    BY <1>1, OnlyOfUids DEF NotEmpty, Kinds
  <2> QED
    BY <1>1, <1>2, <1>3, <2>1
<1>5. TypeOK'
  BY <1>1 DEF TypeInv, TypeOK, EnqueueSync
<1>6. CacheInv' /\ QueueInv'
  BY <1>4 DEF TypeInv, CacheInv, QueueInv, EnqueueSync
<1>7. CommitInv'
  BY DEF TypeInv, CommitInv, SyncLabels, BusyLabels, EnqueueSync
<1> QED
  BY <1>5, <1>6, <1>7 DEF TypeInv

LEMMA TakeNotifyTypes ==
  ASSUME TypeInv, TakeNotify
  PROVE  TypeInv'
<1> USE DEF serverVars, cacheVars, processVars, syncVars, indexVars, ghostVars
<1>1. queue \in Seq(Notify) /\ queue # <<>> /\ hand' = Head(queue) /\ queue' = Tail(queue)
  BY DEF TypeInv, TypeOK, TakeNotify
<1>2. Head(queue) \in Notify /\ NotEmpty(Head(queue)) /\ Tail(queue) \in Seq(Notify)
      /\ \A i \in 1 .. Len(Tail(queue)) : NotEmpty(Tail(queue)[i])
  BY <1>1, TailOfQueue DEF TypeInv, QueueInv
<1>3. TypeOK'
  BY <1>1, <1>2 DEF TypeInv, TypeOK, NotEmpty, TakeNotify
<1>4. CacheInv' /\ QueueInv'
  BY <1>1, <1>2 DEF TypeInv, CacheInv, QueueInv, TakeNotify
<1>5. CommitInv'
  BY DEF TypeInv, CommitInv, SyncLabels, BusyLabels, TakeNotify
<1> QED
  BY <1>3, <1>4, <1>5 DEF TypeInv

(* The loop over the uids of a notification takes one of them out.         *)
LEMMA NextUidTakes ==
  ASSUME TypeInv, NextUid, pc \in {"handle", "header"},
         pc = "handle" => hand.kind = "SetBodys"
  PROVE  /\ Current \in hand.uids /\ Current \in Uids
         /\ hand' \in Notify /\ hand'.kind = hand.kind /\ hand'.uids = hand.uids \ {Current}
         /\ pc' = IF hand'.uids = {} THEN "commit" ELSE "handle"
<1>1. hand \in [kind : Kinds, uids : SUBSET Uids] /\ hand.uids # {}
  BY DEF TypeInv, TypeOK, Notify
<1>2. Current \in hand.uids /\ Current \in Uids
  BY <1>1, CurrentIsInHand
<1>3. /\ hand' \in [kind : Kinds, uids : SUBSET Uids]
      /\ hand'.kind = hand.kind /\ hand'.uids = hand.uids \ {Current}
  BY <1>1 DEF NextUid
<1>4. pc' = IF hand'.uids = {} THEN "commit" ELSE "handle"
  BY <1>2, <1>3 DEF NextUid
<1> QED
  BY <1>2, <1>3, <1>4 DEF Notify

LEMMA BodyTypes ==
  ASSUME TypeInv, Exists \/ AddMessage
  PROVE  TypeInv'
<1> USE DEF serverVars, cacheVars, processVars, syncVars, indexVars
<1>1. /\ NextUid /\ pc \in {"handle", "header"} /\ (pc = "handle" => hand.kind = "SetBodys")
      /\ UNCHANGED <<serverVars, cacheVars, processVars, syncDone, queue, running,
                     syncVars, last, committed, outlived, restarts>>
      /\ content' = NoDoc
  BY DEF Exists, AddMessage, TypeInv, CommitInv
<1>2. /\ Current \in hand.uids /\ Current \in Uids
      /\ hand' \in Notify /\ hand'.kind = hand.kind /\ hand'.uids = hand.uids \ {Current}
      /\ pc' = IF hand'.uids = {} THEN "commit" ELSE "handle"
  BY <1>1, NextUidTakes
<1>3. docs' \in [Uids -> Docs] /\ passed' \subseteq Uids
  BY <1>2 DEF TypeInv, TypeOK, Exists, AddMessage
<1>4. TypeOK'
  BY <1>1, <1>2, <1>3, Numbers DEF TypeInv, TypeOK
<1>5. CacheInv' /\ QueueInv'
  BY <1>1, <1>2 DEF TypeInv, CacheInv, QueueInv
<1>6. CommitInv'
  BY <1>1, <1>2 DEF TypeInv, CommitInv, SyncLabels, BusyLabels
<1> QED
  BY <1>4, <1>5, <1>6 DEF TypeInv

LEMMA ReadBodyTypes ==
  ASSUME TypeInv, ReadBody
  PROVE  TypeInv'
<1> USE DEF serverVars, cacheVars, processVars, syncVars, indexVars, ghostVars
<1>1. content' \in Docs
  BY Numbers DEF ReadBody
<1>2. TypeOK'
  BY <1>1 DEF TypeInv, TypeOK, ReadBody
<1>3. CacheInv' /\ QueueInv' /\ CommitInv'
  BY DEF TypeInv, CacheInv, QueueInv, CommitInv, SyncLabels, BusyLabels, ReadBody
<1> QED
  BY <1>2, <1>3 DEF TypeInv

LEMMA TypeStep == TypeInv /\ [Next]_vars => TypeInv'
<1> SUFFICES ASSUME TypeInv, [Next]_vars
             PROVE  TypeInv'
  OBVIOUS
<1>1. CASE Server
  BY <1>1, ServerTypes
<1>2. CASE ProcessThread
  BY <1>2, FetchUidsTypes, FetchHeadersTypes, FetchBodysTypes, RemoveMessagesTypes,
     RenumberTypes, PushTypes, IdleTypes DEF ProcessThread
<1>3. CASE IndexThread
  BY <1>3, StartSyncTypes, SynchroniseTypes, EnqueueSyncTypes, TakeNotifyTypes,
     HandleSetFoldersTypes, HandleSetUidsTypes, HandleDeleteUidsTypes, BodyTypes,
     ReadBodyTypes, CommitTypes, StopTypes DEF IndexThread, Synchronise, Handle
<1>4. CASE Quit \/ Crash \/ Start
  BY <1>4, IdleTypes, StopTypes, StartTypes
<1>5. CASE UNCHANGED vars
  BY <1>5 DEF TypeInv, TypeOK, CacheInv, QueueInv, CommitInv, vars, serverVars, cacheVars,
              processVars, syncVars, threadVars, indexVars, ghostVars
<1> QED
  BY <1>1, <1>2, <1>3, <1>4, <1>5 DEF Next

(* The state keeps to its types: no loop over the uids of a notification   *)
(* is at a uid that is not there (Process(), HandleSetBodys()).            *)
THEOREM TypeCorrect == Spec => []TypeOK
<1>1. TypeInv => TypeOK
  BY DEF TypeInv
<1> QED
  BY InitTypeInv, TypeStep, <1>1, PTL DEF Spec

-----------------------------------------------------------------------------
(* On the way.                                                             *)

LEMMA NothingIsClear ==
  ASSUME NEW u
  PROVE  Clear(<<>>, u) /\ ~Queued(<<>>, u)
BY DEF Clear, Queued

LEMMA InitIndexInv == Init => IndexInv
<1> SUFFICES ASSUME Init
             PROVE  IndexInv
  OBVIOUS
<1>1. HeldInv
  BY DEF Init, HeldInv, Held, NoDoc
<1>2. StaleInv /\ FoundInv
  BY DEF Init, StaleInv, FoundInv
<1>3. TodoInv /\ SyncInv
  BY NothingIsClear DEF Init, TodoInv, SyncInv, SyncLabels
<1> QED
  BY <1>1, <1>2, <1>3 DEF IndexInv

(* What is left of the thread, the index and the queue by a step of the    *)
(* process thread or the server.                                           *)
ThreadKept ==
  /\ UNCHANGED <<valid, syncDone, queue, listed, found, pc, hand, content, docs, committed,
                 passed, outlived>>
  /\ todo' = todo \/ todo = <<>>

LEMMA LeavesLaterKept ==
  ASSUME ThreadKept
  PROVE  LeavesLater => LeavesLater'
<1>1. CASE todo' = todo
  BY <1>1 DEF ThreadKept, LeavesLater
<1>2. CASE todo = <<>>
  BY <1>2 DEF ThreadKept, LeavesLater
<1> QED
  BY <1>1, <1>2 DEF ThreadKept

(* What the cache gets, the index is told of; what it loses is gone; and   *)
(* what it keeps is not removed by what the index is told.                 *)
LEMMA CacheKeeps ==
  ASSUME TypeInv, IndexInv, ThreadKept,
         \A u \in Uids : (u \in bodys \/ Gone(u)) => (u \in bodys \/ Gone(u))',
         \A u \in bodys' : /\ u \in Uids /\ Clear(todo', u)
                           /\ u \in bodys \/ (u \in server /\ Queued(todo', u)),
         todo' = todo \/ todo = <<>>
  PROVE  IndexInv'
<1> USE DEF IndexInv, ThreadKept
<1>1. Current' = Current
  BY DEF Current
<1>2. pc = "header" => Current \in Uids
  BY CurrentIsInHand DEF TypeInv, TypeOK, Notify
<1>3. HeldInv'
  <2>1. ASSUME NEW d, NEW u \in Uids, Held(d, u)
        PROVE  Held(d, u)'
    BY <2>1 DEF Held
  <2> QED
    BY <1>1, <1>2, <2>1 DEF HeldInv
<1>4. StaleInv'
  BY LeavesLaterKept DEF StaleInv
<1>5. TodoInv'
  BY DEF TodoInv
<1>6. ASSUME NEW u \in bodys', u \notin bodys
      PROVE  docs[u] # valid /\ Queued(todo', u)
  BY <1>6 DEF HeldInv, Held, Gone
<1>7. ASSUME NEW u \in bodys', ComesLater(u)
      PROVE  ComesLater(u)'
  BY <1>7, NothingIsClear DEF ComesLater
<1>8. SyncInv'
  BY <1>6, <1>7 DEF SyncInv, ComesLater
<1>9. FoundInv'
  <2>1. ASSUME NEW u \in bodys', u \in bodys, Coming(u)
        PROVE  Coming(u)'
    BY <1>7, <2>1 DEF Coming, InHand
  <2>2. ASSUME NEW u \in bodys', u \notin bodys
        PROVE  ComesLater(u)'
    BY <1>6, <2>2 DEF ComesLater
  <2>3. \A u \in bodys' : Stays(u) => Stays(u)'
    BY DEF Stays
  <2> QED
    BY <1>1, <1>7, <2>1, <2>2, <2>3 DEF FoundInv, Coming
<1> QED
  BY <1>3, <1>4, <1>5, <1>8, <1>9

LEMMA ServerIndex ==
  ASSUME TypeInv, IndexInv, Server
  PROVE  IndexInv'
<1> USE DEF serverVars, cacheVars, processVars, syncVars, threadVars, indexVars, ghostVars
<1>1. ThreadKept /\ todo' = todo /\ bodys' = bodys
  BY DEF ThreadKept, Server, NewMail, MailVanishes
<1>2. \A u \in Uids : Gone(u) => Gone(u)'
  <2>1. CASE NewMail
    BY <2>1, Numbers DEF Gone, NewMail
  <2>2. CASE \E v \in Uids : MailVanishes(v)
    BY <2>2 DEF Gone, MailVanishes
  <2> QED
    BY <2>1, <2>2 DEF Server
<1>3. \A u \in bodys : u \in Uids /\ Clear(todo, u)
  BY DEF IndexInv, TodoInv, TypeInv, TypeOK
<1> QED
  BY <1>1, <1>2, <1>3, CacheKeeps

LEMMA FetchUidsIndex ==
  ASSUME TypeInv, IndexInv, FetchUids
  PROVE  IndexInv'
<1> USE DEF serverVars, cacheVars, processVars, syncVars, threadVars, indexVars, ghostVars
<1>1. ThreadKept /\ todo = <<>> /\ UNCHANGED <<server, given>> /\ bodys' = bodys \cap server
  BY DEF ThreadKept, FetchUids, Active
<1>2. server \in SUBSET Uids /\ bodys \subseteq 1 .. given
  BY DEF TypeInv, TypeOK, CacheInv
<1>3. PICK n \in Notify : n = Notification("SetUids", server)
  BY <1>2, OnlyOfUids DEF Kinds
<1>4. n.kind = "SetUids" /\ n.uids = server /\ todo' = <<n>>
  BY <1>2, <1>3, OnlyOfUids DEF FetchUids, Kinds
<1>5. \A u \in Uids : (u \in bodys \/ Gone(u)) => (u \in bodys \/ Gone(u))'
  BY <1>1, <1>2 DEF Gone
<1>6. \A u \in bodys' : u \in Uids /\ u \in bodys /\ Clear(todo', u)
  BY <1>1, <1>2, <1>4, OneNotify DEF Removes
<1> QED
  BY <1>1, <1>5, <1>6, CacheKeeps

LEMMA FetchHeadersIndex ==
  ASSUME TypeInv, IndexInv, NEW wanted \in SUBSET uids, FetchHeaders(wanted)
  PROVE  IndexInv'
<1> USE DEF serverVars, cacheVars, processVars, syncVars, threadVars, indexVars, ghostVars
<1>1. ThreadKept /\ todo' = todo /\ UNCHANGED <<server, given, bodys>>
  BY DEF ThreadKept, FetchHeaders, Active
<1>2. \A u \in bodys : u \in Uids /\ Clear(todo, u)
  BY DEF IndexInv, TodoInv, TypeInv, TypeOK
<1>3. \A u \in Uids : Gone(u)' = Gone(u)
  BY <1>1 DEF Gone
<1> QED
  BY <1>1, <1>2, <1>3, CacheKeeps

LEMMA FetchBodysIndex ==
  ASSUME TypeInv, IndexInv, NEW wanted \in SUBSET uids, FetchBodys(wanted)
  PROVE  IndexInv'
<1> USE DEF serverVars, cacheVars, processVars, syncVars, threadVars, indexVars, ghostVars
<1> DEFINE fetched == (wanted \ bodys) \cap server
<1>1. ThreadKept /\ todo = <<>> /\ UNCHANGED <<server, given>> /\ bodys' = bodys \cup fetched
  BY DEF ThreadKept, FetchBodys, Active
<1>2. fetched \in SUBSET Uids /\ bodys \subseteq Uids
  BY DEF TypeInv, TypeOK
<1>3. PICK n \in Notify : n = Notification("SetBodys", fetched)
  BY <1>2, OnlyOfUids DEF Kinds
<1>4. n.kind = "SetBodys" /\ n.uids = fetched /\ todo' = <<n>>
  BY <1>2, <1>3, OnlyOfUids DEF FetchBodys, Kinds
<1>5. \A u \in Uids : (u \in bodys \/ Gone(u)) => (u \in bodys \/ Gone(u))'
  BY <1>1 DEF Gone
<1>6. \A u \in bodys' : /\ u \in Uids /\ Clear(todo', u)
                        /\ u \in bodys \/ (u \in server /\ Queued(todo', u))
  BY <1>1, <1>2, <1>4, OneNotify DEF Removes, Adds
<1> QED
  BY <1>1, <1>5, <1>6, CacheKeeps

LEMMA RemoveMessagesIndex ==
  ASSUME TypeInv, IndexInv, NEW gone \in SUBSET uids, RemoveMessages(gone)
  PROVE  IndexInv'
<1> USE DEF serverVars, cacheVars, processVars, syncVars, threadVars, indexVars, ghostVars
<1>1. /\ ThreadKept /\ todo = <<>> /\ given' = given
      /\ server' = server \ gone /\ bodys' = bodys \ gone
  BY DEF ThreadKept, RemoveMessages, Active
<1>2. gone \in SUBSET Uids /\ bodys \subseteq 1 .. given /\ bodys \subseteq Uids
  BY DEF TypeInv, TypeOK, CacheInv
<1>3. PICK n \in Notify : n = Notification("DeleteUids", gone)
  BY <1>2, OnlyOfUids DEF Kinds
<1>4. n.kind = "DeleteUids" /\ n.uids = gone /\ todo' = <<n>>
  BY <1>2, <1>3, OnlyOfUids DEF RemoveMessages, Kinds
<1>5. \A u \in Uids : (u \in bodys \/ Gone(u)) => (u \in bodys \/ Gone(u))'
  BY <1>1, <1>2 DEF Gone
<1>6. \A u \in bodys' : u \in Uids /\ u \in bodys /\ Clear(todo', u)
  BY <1>1, <1>2, <1>4, OneNotify DEF Removes
<1> QED
  BY <1>1, <1>5, <1>6, CacheKeeps

(* Anew, nothing is cached, all documents are of the past, and the index   *)
(* is told that the folder is gone.                                        *)
LEMMA RenumberIndex ==
  ASSUME TypeInv, IndexInv, Renumber
  PROVE  IndexInv'
<1> USE DEF syncVars, threadVars, indexVars, ghostVars
<1>1. /\ UNCHANGED <<syncDone, queue, listed, found, pc, hand, content, docs, committed>>
      /\ bodys' = {} /\ valid' = valid + 1
  BY DEF Renumber
<1>2. Current' = Current
  BY <1>1 DEF Current
<1>3. HeldInv'
  <2>1. \A u \in Uids : docs[u] \in Nat /\ committed[u] \in Nat
    BY Numbers DEF TypeInv, TypeOK
  <2>2. content \in Nat /\ valid \in Nat
    BY Numbers DEF TypeInv, TypeOK
  <2>3. ASSUME NEW d \in Nat, NEW u, Held(d, u)
        PROVE  d <= valid' /\ d # valid'
    BY <1>1, <2>2, <2>3 DEF Held
  <2> QED
    BY <1>1, <1>2, <2>1, <2>2, <2>3 DEF IndexInv, HeldInv, Held
<1>4. StaleInv'
  <2>1. todo' = <<Notification("SetFolders", {}), Notification("SetFolders", Uids)>>
    BY DEF Renumber
  <2>2. 1 \in 1 .. Len(todo') /\ todo'[1] = Notification("SetFolders", {})
    BY <2>1
  <2>3. Leaves(Notification("SetFolders", {}))
    BY OnlyOfUids DEF Leaves, Kinds
  <2>4. LeavesLater'
    BY <2>2, <2>3 DEF LeavesLater
  <2> QED
    BY <2>4 DEF StaleInv
<1>5. TodoInv' /\ SyncInv' /\ FoundInv'
  BY <1>1 DEF IndexInv, TodoInv, SyncInv, FoundInv
<1> QED
  BY <1>3, <1>4, <1>5 DEF IndexInv

(* What is told goes from one queue to the other, or, before the           *)
(* synchronisation, is not needed.                                         *)
LEMMA PushIndex ==
  ASSUME TypeInv, IndexInv, Push
  PROVE  IndexInv'
<1> USE DEF serverVars, cacheVars, syncVars, threadVars, indexVars, ghostVars
<1>1. UNCHANGED <<server, valid, given, bodys, syncDone, listed, found, pc, hand, content,
                  docs, committed, passed, outlived>>
  BY DEF Push
<1>2. /\ todo \in Seq(Notify) /\ queue \in Seq(Notify) /\ todo # <<>>
      /\ Head(todo) \in Notify /\ todo' = Tail(todo)
      /\ queue' = queue \/ queue' = Append(queue, Head(todo))
      /\ syncDone \/ Head(todo).kind = "SetFolders" => queue' = Append(queue, Head(todo))
  BY TailOfQueue DEF TypeInv, TypeOK, Push
<1>3. Current' = Current /\ \A d, u : Held(d, u)' = Held(d, u)
  BY <1>1 DEF Current, Held, Gone
<1>4. HeldInv'
  BY <1>1, <1>3 DEF IndexInv, HeldInv
<1>5. LeavesLater => LeavesLater'
  <2>1. ASSUME NEW i \in 1 .. Len(queue), Leaves(queue[i])
        PROVE  LeavesLater'
    <3>1. i \in 1 .. Len(queue') /\ queue'[i] = queue[i]
      BY <1>2, EndOfQueue
    <3> QED
      BY <2>1, <3>1 DEF LeavesLater
  <2>2. ASSUME NEW i \in 1 .. Len(todo), Leaves(todo[i])
        PROVE  LeavesLater'
    <3>1. CASE i = 1
      <4>1. queue' = Append(queue, Head(todo)) /\ Leaves(Head(todo))
        BY <1>2, <2>2, <3>1, TailOfQueue DEF Leaves
      <4>2. Len(queue) + 1 \in 1 .. Len(queue') /\ queue'[Len(queue) + 1] = Head(todo)
        BY <1>2, <4>1, EndOfQueue
      <4> QED
        BY <4>1, <4>2 DEF LeavesLater
    <3>2. CASE i # 1
      <4>1. i - 1 \in 1 .. Len(todo') /\ todo'[i - 1] = todo[i]
        BY <1>2, <3>2, TailOfQueue
      <4> QED
        BY <2>2, <4>1 DEF LeavesLater
    <3> QED
      BY <3>1, <3>2
  <2> QED
    BY <2>1, <2>2 DEF LeavesLater
<1>6. StaleInv'
  BY <1>1, <1>5 DEF IndexInv, StaleInv
<1>7. ASSUME NEW u \in bodys
      PROVE  ~Removes(Head(todo), u) /\ Clear(todo', u)
  BY <1>2, ClearTail DEF IndexInv, TodoInv
<1>8. TodoInv'
  BY <1>1, <1>7 DEF TodoInv
<1>9. ASSUME NEW u \in bodys, Clear(queue, u)
      PROVE  Clear(queue', u)
  BY <1>2, <1>7, <1>9, ClearAppend
<1>10. ASSUME NEW u \in bodys, ComesLater(u), syncDone
       PROVE  ComesLater(u)'
  <2>1. queue' = Append(queue, Head(todo))
    BY <1>2, <1>10
  <2>2. CASE Queued(queue, u)
    BY <1>2, <1>7, <2>1, <2>2, QueuedAppend DEF ComesLater
  <2>3. CASE Queued(todo, u)
    BY <1>2, <2>1, <2>3, QueuedTail, QueuedAppend DEF ComesLater
  <2> QED
    BY <1>10, <2>2, <2>3 DEF ComesLater
<1>11. SyncInv'
  <2>1. pc \in SyncLabels => syncDone
    BY DEF TypeInv, CommitInv
  <2> QED
    BY <1>1, <1>9, <1>10, <2>1 DEF IndexInv, SyncInv, SyncLabels
<1>12. FoundInv'
  BY <1>1, <1>3, <1>9, <1>10 DEF IndexInv, FoundInv, Stays, Coming, InHand
<1> QED
  BY <1>4, <1>6, <1>8, <1>11, <1>12 DEF IndexInv

LEMMA IdleIndex ==
  ASSUME TypeInv, IndexInv, GoIdle \/ LeaveIdle \/ Quit
  PROVE  IndexInv'
<1>1. UNCHANGED <<serverVars, cacheVars, todo, syncDone, queue, syncVars, threadVars,
                  indexVars, ghostVars>>
  BY DEF GoIdle, LeaveIdle, Quit
<1> QED
  BY <1>1 DEF IndexInv, HeldInv, Held, Gone, StaleInv, LeavesLater, TodoInv, SyncInv,
              FoundInv, Stays, Coming, ComesLater, InHand, Current, serverVars, cacheVars,
              syncVars, threadVars, indexVars, ghostVars

(* The synchronisation, while the documents are those of the last commit.  *)
LEMMA SyncIndex ==
  ASSUME TypeInv, IndexInv, StartSync \/ ListDocs \/ ReadUids \/ ReadBodyUids
  PROVE  IndexInv'
<1> USE DEF serverVars, cacheVars, processVars, syncVars, threadVars, indexVars, ghostVars
<1>1. /\ UNCHANGED <<server, valid, given, bodys, todo, queue, hand, content, docs, committed,
                     passed, outlived>>
      /\ pc \in {"wait", "list", "uids", "bodys"} /\ pc' \in SyncLabels
      /\ ~syncDone \/ pc \in SyncLabels
  BY DEF StartSync, ListDocs, ReadUids, ReadBodyUids, SyncLabels
<1>2. HeldInv' /\ StaleInv' /\ TodoInv' /\ FoundInv'
  BY <1>1 DEF IndexInv, HeldInv, Held, Gone, StaleInv, LeavesLater, TodoInv, FoundInv,
              SyncLabels
<1>3. \A u \in bodys : Clear(queue, u) \/ docs[u] # valid
  BY <1>1 DEF IndexInv, SyncInv
<1>4. pc' \in {"uids", "bodys", "enqueue"} => listed' = {u \in Uids : docs[u] # NoDoc}
  <2>1. CASE StartSync
    BY <2>1 DEF StartSync
  <2>2. CASE ListDocs
    BY <2>2 DEF ListDocs, TypeInv, CommitInv, BusyLabels
  <2>3. CASE ReadUids \/ ReadBodyUids
    BY <2>3 DEF ReadUids, ReadBodyUids, IndexInv, SyncInv, SyncLabels
  <2> QED
    BY <2>1, <2>2, <2>3
<1>5. pc' \in {"bodys", "enqueue"} =>
        \A u \in bodys : u \in found' \/ (ComesLater(u) /\ docs[u] # valid)
  <2>1. CASE StartSync \/ ListDocs
    BY <2>1 DEF StartSync, ListDocs
  <2>2. CASE ReadUids
    BY <2>2 DEF ReadUids, TypeInv, CacheInv
  <2>3. CASE ReadBodyUids
    BY <2>3 DEF ReadBodyUids, IndexInv, SyncInv, SyncLabels
  <2> QED
    BY <2>1, <2>2, <2>3
<1>6. SyncInv'
  BY <1>1, <1>3, <1>4, <1>5 DEF SyncInv, ComesLater
<1> QED
  BY <1>2, <1>6 DEF IndexInv

(* Its end: a body without a document is told of, and one with a document  *)
(* that is not of its own is passed over.                                  *)
LEMMA EnqueueSyncIndex ==
  ASSUME TypeInv, IndexInv, EnqueueSync
  PROVE  IndexInv'
<1> USE DEF serverVars, cacheVars, processVars, threadVars, indexVars
<1> DEFINE q == queue \o IfAny("SetBodys", found \ listed)
<1>1. /\ q \in Seq(Notify) /\ queue' \in Seq(Notify) /\ queue \in Seq(Notify)
      /\ q = queue \/ /\ q = Append(queue, Notification("SetBodys", found \ listed))
                      /\ found \ listed # {}
      /\ \/ queue' = q
         \/ queue' = Append(q, Notification("DeleteUids", listed \ found))
      /\ found \ listed \in SUBSET Uids /\ listed \ found \in SUBSET Uids
  BY SyncAppends
<1>2. found \ listed # {} => q = Append(queue, Notification("SetBodys", found \ listed))
  BY <1>1, IfAnyAppends DEF Kinds
<1> HIDE DEF q
<1>3. /\ UNCHANGED <<server, valid, given, bodys, todo, syncDone, hand, content, docs,
                     committed, outlived>>
      /\ pc = "enqueue" /\ pc' = "wait" /\ syncDone
      /\ passed' = passed \cup {u \in listed : docs[u] # valid}
  BY DEF EnqueueSync, TypeInv, CommitInv, SyncLabels
<1>4. PICK a \in Notify : /\ a = Notification("SetBodys", found \ listed)
                          /\ a.kind = "SetBodys" /\ a.uids = found \ listed
  BY <1>1, OnlyOfUids DEF Kinds
<1>5. PICK b \in Notify : /\ b = Notification("DeleteUids", listed \ found)
                          /\ b.kind = "DeleteUids" /\ b.uids = listed \ found
  BY <1>1, OnlyOfUids DEF Kinds
<1>6. \A d, u : Held(d, u)' = Held(d, u)
  BY <1>3 DEF Held, Gone
<1>7. HeldInv' /\ TodoInv' /\ SyncInv'
  BY <1>3, <1>6 DEF IndexInv, HeldInv, TodoInv, SyncInv, SyncLabels
<1>8. LeavesLater => LeavesLater'
  <2>1. \A i \in 1 .. Len(queue) : i \in 1 .. Len(q) /\ q[i] = queue[i]
    BY <1>1, <1>4, EndOfQueue
  <2>2. \A i \in 1 .. Len(q) : i \in 1 .. Len(queue') /\ queue'[i] = q[i]
    BY <1>1, <1>5, EndOfQueue
  <2> QED
    BY <1>3, <2>1, <2>2 DEF LeavesLater
<1>9. StaleInv'
  BY <1>3, <1>8 DEF IndexInv, StaleInv
<1>10. ASSUME NEW u \in bodys
       PROVE  u \in passed' \cup outlived' \/ Stays(u)' \/ Coming(u)'
  <2>1. u \in Uids
    BY DEF TypeInv, TypeOK
  <2>2. /\ listed = {v \in Uids : docs[v] # NoDoc}
        /\ Clear(queue, u) \/ docs[u] # valid
        /\ u \in found \/ (ComesLater(u) /\ docs[u] # valid)
    BY <1>3 DEF IndexInv, SyncInv, SyncLabels
  <2>3. CASE u \in listed /\ docs[u] # valid
    BY <1>3, <2>3
  <2>4. CASE u \in listed /\ docs[u] = valid
    <3>1. u \in found /\ Clear(queue, u)
      BY <2>2, <2>4
    <3>2. Clear(q, u)
      BY <1>1, <1>4, <3>1, ClearAppend DEF Removes
    <3>3. Clear(queue', u)
      BY <1>1, <1>5, <3>1, <3>2, ClearAppend DEF Removes
    <3> QED
      BY <1>3, <2>4, <3>3 DEF Stays
  <2>5. CASE u \notin listed /\ u \in found
    <3>1. Queued(q, u)
      BY <1>1, <1>2, <1>4, <2>5, QueuedAppend DEF Adds
    <3>2. Queued(queue', u)
      BY <1>1, <1>5, <2>5, <3>1, QueuedAppend DEF Removes
    <3> QED
      BY <3>2 DEF Coming, ComesLater
  <2>6. CASE u \notin listed /\ u \notin found
    <3>1. CASE Queued(todo, u)
      BY <1>3, <3>1 DEF Coming, ComesLater
    <3>2. CASE Queued(queue, u)
      <4>1. Queued(q, u)
        BY <1>1, <1>4, <3>2, QueuedAppend DEF Removes
      <4>2. Queued(queue', u)
        BY <1>1, <1>5, <2>6, <4>1, QueuedAppend DEF Removes
      <4> QED
        BY <4>2 DEF Coming, ComesLater
    <3> QED
      BY <2>2, <2>6, <3>1, <3>2 DEF ComesLater
  <2> QED
    BY <2>3, <2>4, <2>5, <2>6
<1>11. FoundInv'
  BY <1>3, <1>10 DEF FoundInv
<1> QED
  BY <1>7, <1>9, <1>11 DEF IndexInv

LEMMA TakeNotifyIndex ==
  ASSUME TypeInv, IndexInv, TakeNotify
  PROVE  IndexInv'
<1> USE DEF serverVars, cacheVars, processVars, syncVars, indexVars, ghostVars
<1>1. /\ UNCHANGED <<server, valid, given, bodys, todo, syncDone, content, docs,
                     committed, passed, outlived>>
      /\ pc = "wait" /\ pc' = "handle" /\ syncDone
      /\ queue \in Seq(Notify) /\ queue # <<>> /\ hand' = Head(queue) /\ queue' = Tail(queue)
  BY DEF TypeInv, TypeOK, TakeNotify
<1>2. \A d, u : Held(d, u)' = Held(d, u)
  BY <1>1 DEF Held, Gone
<1>3. HeldInv' /\ TodoInv' /\ SyncInv'
  BY <1>1, <1>2 DEF IndexInv, HeldInv, TodoInv, SyncInv, SyncLabels
<1>4. LeavesLater => LeavesLater' \/ Leaves(hand')
  <2>1. ASSUME NEW i \in 1 .. Len(queue), Leaves(queue[i])
        PROVE  LeavesLater' \/ Leaves(hand')
    <3>1. CASE i = 1
      BY <1>1, <2>1, <3>1, TailOfQueue DEF Leaves
    <3>2. CASE i # 1
      <4>1. i - 1 \in 1 .. Len(queue') /\ queue'[i - 1] = queue[i]
        BY <1>1, <3>2, TailOfQueue
      <4> QED
        BY <2>1, <4>1 DEF LeavesLater
    <3> QED
      BY <3>1, <3>2
  <2> QED
    BY <1>1, <2>1 DEF LeavesLater
<1>5. StaleInv'
  BY <1>1, <1>4 DEF IndexInv, StaleInv
<1>6. ASSUME NEW u \in bodys
      PROVE  u \in passed' \cup outlived' \/ Stays(u)' \/ Coming(u)'
  <2>1. u \in passed \cup outlived \/ Stays(u) \/ Coming(u)
    BY <1>1 DEF IndexInv, FoundInv, SyncLabels
  <2>2. CASE Stays(u)
    BY <1>1, <2>2, ClearTail DEF Stays
  <2>3. CASE Coming(u)
    <3>1. CASE Queued(todo, u)
      BY <1>1, <3>1 DEF Coming, ComesLater
    <3>2. CASE Queued(queue, u)
      BY <1>1, <3>2, QueuedTail DEF Coming, ComesLater, InHand
    <3> QED
      BY <1>1, <2>3, <3>1, <3>2 DEF Coming, ComesLater, InHand
  <2> QED
    BY <1>1, <2>1, <2>2, <2>3
<1>7. FoundInv'
  BY <1>1, <1>6 DEF FoundInv
<1> QED
  BY <1>3, <1>5, <1>7 DEF IndexInv

(* The three notifications that remove documents keep those of what they   *)
(* do not name.                                                            *)
LEMMA RemovalIndex ==
  ASSUME TypeInv, IndexInv, HandleSetFolders \/ HandleSetUids \/ HandleDeleteUids
  PROVE  IndexInv'
<1> USE DEF serverVars, cacheVars, processVars, syncVars, ghostVars
<1>1. /\ UNCHANGED <<server, valid, given, bodys, todo, syncDone, queue, hand, content,
                     committed, passed>>
      /\ pc = "handle" /\ pc' = "commit" /\ syncDone
      /\ hand.kind \in {"SetFolders", "SetUids", "DeleteUids"}
  BY DEF HandleSetFolders, HandleSetUids, HandleDeleteUids, TypeInv, CommitInv, BusyLabels
<1>2. /\ \A u \in Uids : docs'[u] \in {docs[u], NoDoc}
      /\ \A u \in Uids : ~Removes(hand, u) => docs'[u] = docs[u]
      /\ outlived \subseteq outlived'
      /\ Leaves(hand) => \A u \in Uids : docs'[u] = NoDoc \/ u \in outlived'
  <2>1. CASE HandleSetFolders
    <3>1. docs' = [u \in Uids |-> IF committed[u] # NoDoc /\ u \notin hand.uids
                                  THEN NoDoc ELSE docs[u]]
      BY <2>1 DEF HandleSetFolders, KeepOnly
    <3>2. outlived' = outlived \cup {u \in Uids \ hand.uids : docs'[u] # NoDoc}
      BY <2>1 DEF HandleSetFolders
    <3> QED
      BY <2>1, <3>1, <3>2 DEF HandleSetFolders, Removes, Leaves
  <2>2. CASE HandleSetUids
    BY <2>2 DEF HandleSetUids, KeepOnly, Removes, Leaves
  <2>3. CASE HandleDeleteUids
    BY <2>3 DEF HandleDeleteUids, Removes, Leaves
  <2> QED
    BY <2>1, <2>2, <2>3
<1>3. \A d, u : Held(d, u)' = Held(d, u)
  BY <1>1 DEF Held, Gone
<1>4. \A u : Held(NoDoc, u)
  BY Numbers DEF Held, NoDoc
<1>5. HeldInv' /\ TodoInv' /\ SyncInv'
  BY <1>1, <1>2, <1>3, <1>4 DEF IndexInv, HeldInv, TodoInv, SyncInv, SyncLabels
<1>6. StaleInv'
  <2>1. LeavesLater' = LeavesLater
    BY <1>1 DEF LeavesLater
  <2> QED
    BY <1>1, <1>2, <2>1 DEF IndexInv, StaleInv
<1>7. ASSUME NEW u \in bodys
      PROVE  u \in passed' \cup outlived' \/ Stays(u)' \/ Coming(u)'
  <2>1. u \in Uids /\ (u \in passed \cup outlived \/ Stays(u) \/ Coming(u))
    BY <1>1 DEF IndexInv, FoundInv, SyncLabels, TypeInv, TypeOK
  <2>2. CASE Stays(u)
    BY <1>1, <1>2, <2>1, <2>2 DEF Stays
  <2>3. CASE Coming(u)
    BY <1>1, <2>3 DEF Coming, ComesLater, InHand, Adds
  <2> QED
    BY <1>1, <1>2, <2>1, <2>2, <2>3
<1>8. FoundInv'
  BY <1>1, <1>7 DEF FoundInv
<1> QED
  BY <1>5, <1>6, <1>8 DEF IndexInv

LEMMA ReadBodyIndex ==
  ASSUME TypeInv, IndexInv, ReadBody
  PROVE  IndexInv'
<1> USE DEF serverVars, cacheVars, processVars, syncVars, indexVars, ghostVars
<1>1. /\ UNCHANGED <<server, valid, given, bodys, todo, syncDone, queue, hand, docs,
                     committed, passed, outlived>>
      /\ pc = "handle" /\ pc' = "header" /\ syncDone /\ hand.kind = "SetBodys"
      /\ content' = IF Current \in bodys THEN valid ELSE NoDoc
  BY DEF ReadBody, TypeInv, CommitInv, BusyLabels
<1>2. Current' = Current /\ \A d, u : Held(d, u)' = Held(d, u)
  BY <1>1 DEF Current, Held, Gone
<1>3. Held(content', Current)
  BY <1>1, Numbers DEF Held, NoDoc
<1>4. HeldInv' /\ TodoInv' /\ SyncInv'
  BY <1>1, <1>2, <1>3 DEF IndexInv, HeldInv, TodoInv, SyncInv, SyncLabels
<1>5. StaleInv'
  <2>1. LeavesLater' = LeavesLater
    BY <1>1 DEF LeavesLater
  <2> QED
    BY <1>1, <2>1 DEF IndexInv, StaleInv, Leaves
<1>6. FoundInv'
  <2>1. content' = NoDoc => Current' \notin bodys'
    BY <1>1, <1>2, Numbers
  <2>2. \A u : (Stays(u) => Stays(u)') /\ (Coming(u) => Coming(u)')
    BY <1>1 DEF Stays, Coming, ComesLater, InHand
  <2> QED
    BY <1>1, <2>1, <2>2 DEF IndexInv, FoundInv, SyncLabels
<1> QED
  BY <1>4, <1>5, <1>6 DEF IndexInv

(* A uid of a notification is done with: it is indexed as it is now, or    *)
(* passed over, or told of again.                                          *)
LEMMA BodyIndex ==
  ASSUME TypeInv, IndexInv, Exists \/ AddMessage
  PROVE  IndexInv'
<1> USE DEF serverVars, cacheVars, processVars, syncVars
<1>1. /\ NextUid /\ pc \in {"handle", "header"} /\ (pc = "handle" => hand.kind = "SetBodys")
      /\ UNCHANGED <<server, valid, given, bodys, todo, syncDone, queue, committed, outlived>>
      /\ content' = NoDoc /\ passed \subseteq passed' /\ syncDone
  BY DEF Exists, AddMessage, TypeInv, CommitInv, BusyLabels, indexVars
<1>2. /\ Current \in hand.uids /\ Current \in Uids
      /\ hand'.kind = hand.kind /\ hand'.uids = hand.uids \ {Current}
      /\ pc' = IF hand'.uids = {} THEN "commit" ELSE "handle"
  BY <1>1, NextUidTakes
<1>3. pc' \in {"commit", "handle"} /\ pc' \notin SyncLabels
  BY <1>2 DEF SyncLabels
<1>4. PICK c : c = Current
  OBVIOUS
<1>5. docs \in [Uids -> Docs]
  BY DEF TypeInv, TypeOK
<1>6. \/ docs' = docs
      \/ pc = "header" /\ content # NoDoc /\ docs' = [docs EXCEPT ![c] = content]
  BY <1>4 DEF Exists, AddMessage, indexVars
<1>7. hand.kind = "SetBodys" => ~Leaves(hand)
  BY DEF Leaves
<1>8. \A d, u : Held(d, u)' = Held(d, u)
  BY <1>1 DEF Held, Gone
<1>9. HeldInv'
  <2>1. \A u \in Uids : Held(docs'[u], u)
    BY <1>4, <1>5, <1>6 DEF IndexInv, HeldInv
  <2> QED
    BY <1>1, <1>3, <1>8, <2>1 DEF IndexInv, HeldInv
<1>10. LeavesLater' = LeavesLater
  BY <1>1 DEF LeavesLater
<1>11. StaleInv'
  <2>1. \A u \in Uids : docs[u] \in {NoDoc, valid} \/ u \in outlived \/ LeavesLater
    BY <1>1, <1>7 DEF IndexInv, StaleInv
  <2>2. \A u \in Uids : docs'[u] \in {NoDoc, valid} \/ u \in outlived \/ LeavesLater
    BY <1>5, <1>6, <2>1 DEF IndexInv, StaleInv
  <2> QED
    BY <1>1, <1>3, <1>10, <2>2 DEF StaleInv
<1>12. TodoInv' /\ SyncInv'
  BY <1>1, <1>3 DEF IndexInv, TodoInv, SyncInv
<1>13. ASSUME NEW u \in bodys, Stays(u) \/ (Coming(u) /\ ~ComesLater(u))
       PROVE  ~LeavesLater
  <2>1. Clear(queue, u) /\ Clear(todo, u)
    BY <1>13 DEF Stays, Coming, IndexInv, TodoInv
  <2> QED
    BY <2>1 DEF LeavesLater, Clear, Leaves, Removes
<1>14. ASSUME NEW u \in bodys
       PROVE  u \in passed' \cup outlived' \/ Stays(u)' \/ Coming(u)'
  <2>1. u \in Uids /\ (u \in passed \cup outlived \/ Stays(u) \/ Coming(u))
    BY <1>1 DEF IndexInv, FoundInv, SyncLabels, TypeInv, TypeOK
  <2>2. ASSUME docs'[u] = valid, Clear(queue, u)
        PROVE  Stays(u)'
    <3>1. hand'.kind = "SetBodys"
      BY <1>1, <1>2 DEF TypeInv, QueueInv
    <3> QED
      BY <1>1, <2>2, <3>1 DEF Stays, Removes
  <2>3. CASE ComesLater(u)
    BY <1>1, <2>3 DEF Coming, ComesLater
  <2>4. CASE Stays(u) /\ ~ComesLater(u)
    <3>1. docs'[u] = valid
      BY <1>5, <1>6, <1>13, <2>1, <2>4 DEF Stays, IndexInv, StaleInv
    <3> QED
      BY <2>2, <2>4, <3>1 DEF Stays
  <2>5. CASE Coming(u) /\ ~ComesLater(u) /\ u # c
    BY <1>1, <1>2, <1>4, <2>5 DEF Coming, ComesLater, InHand, Adds
  <2>6. CASE Coming(u) /\ ~ComesLater(u) /\ u = c
    <3>1. Clear(queue, u) /\ ~LeavesLater
      BY <1>13, <2>6 DEF Coming
    <3>2. CASE Exists
      BY <1>4, <2>2, <2>6, <3>1, <3>2 DEF Exists, indexVars
    <3>3. CASE AddMessage
      <4>1. content = valid
        BY <1>1, <1>4, <2>6, <3>1, <3>3 DEF IndexInv, StaleInv, FoundInv, AddMessage, SyncLabels
      <4>2. CASE u \in headers
        <5>1. docs'[u] = valid
          BY <1>4, <1>5, <2>1, <2>6, <3>3, <4>1, <4>2, Numbers DEF AddMessage
        <5> QED
          BY <2>2, <3>1, <5>1
      <4>3. CASE u \notin headers
        BY <1>4, <2>6, <3>3, <4>1, <4>3, Numbers DEF AddMessage
      <4> QED
        BY <4>2, <4>3
    <3> QED
      BY <3>2, <3>3
  <2> QED
    BY <1>1, <2>1, <2>3, <2>4, <2>5, <2>6
<1>15. FoundInv'
  BY <1>1, <1>3, <1>14 DEF FoundInv
<1> QED
  BY <1>9, <1>11, <1>12, <1>15 DEF IndexInv

LEMMA CommitIndex ==
  ASSUME TypeInv, IndexInv, Commit \/ CommitLater
  PROVE  IndexInv'
<1> USE DEF serverVars, cacheVars, processVars, syncVars, indexVars, ghostVars
<1>1. /\ UNCHANGED <<server, valid, given, bodys, todo, syncDone, queue, docs, content,
                     passed, outlived>>
      /\ committed' \in {committed, docs}
      /\ pc = "commit" /\ pc' = "wait" /\ syncDone
  BY DEF Commit, CommitLater, TypeInv, CommitInv, BusyLabels
<1>2. \A d, u : Held(d, u)' = Held(d, u)
  BY <1>1 DEF Held, Gone
<1>3. HeldInv' /\ TodoInv' /\ SyncInv'
  BY <1>1, <1>2 DEF IndexInv, HeldInv, TodoInv, SyncInv, SyncLabels
<1>4. StaleInv'
  BY <1>1 DEF IndexInv, StaleInv, LeavesLater
<1>5. FoundInv'
  BY <1>1 DEF IndexInv, FoundInv, Stays, Coming, ComesLater, InHand, SyncLabels
<1> QED
  BY <1>3, <1>4, <1>5 DEF IndexInv

LEMMA StopIndex ==
  ASSUME TypeInv, IndexInv, Exit \/ Crash
  PROVE  IndexInv'
<1> USE DEF serverVars, cacheVars, ghostVars
<1>1. /\ UNCHANGED <<server, valid, given, bodys>>
      /\ committed' \in {committed, docs} /\ docs' = committed'
      /\ pc' = "off" /\ queue' = <<>> /\ todo' = <<>> /\ ~syncDone'
  BY DEF Exit, Crash, LoseMemory
<1>2. \A d, u : Held(d, u)' = Held(d, u)
  BY <1>1 DEF Held, Gone
<1>3. HeldInv' /\ StaleInv' /\ FoundInv'
  BY <1>1, <1>2 DEF IndexInv, HeldInv, StaleInv, FoundInv
<1>4. TodoInv' /\ SyncInv'
  BY <1>1, NothingIsClear DEF TodoInv, SyncInv, SyncLabels
<1> QED
  BY <1>3, <1>4 DEF IndexInv

(* Documents of the past that the last session has left are counted.       *)
LEMMA StartIndex ==
  ASSUME TypeInv, IndexInv, Start
  PROVE  IndexInv'
<1> USE DEF serverVars, cacheVars, processVars, syncVars, indexVars
<1>1. /\ UNCHANGED <<server, valid, given, bodys, todo, syncDone, queue, docs, committed>>
      /\ pc = "off" /\ pc' = "wait" /\ ~syncDone /\ docs = committed
      /\ outlived' = {u \in Uids : committed[u] \notin {NoDoc, valid}}
  BY DEF Start, TypeInv, CommitInv, BusyLabels
<1>2. HeldInv' /\ TodoInv' /\ SyncInv' /\ FoundInv'
  BY <1>1 DEF IndexInv, HeldInv, Held, Gone, TodoInv, SyncInv, FoundInv, SyncLabels
<1>3. StaleInv'
  BY <1>1 DEF StaleInv
<1> QED
  BY <1>2, <1>3 DEF IndexInv

LEMMA IndexStep == TypeInv /\ IndexInv /\ [Next]_vars => IndexInv'
<1> SUFFICES ASSUME TypeInv, IndexInv, [Next]_vars
             PROVE  IndexInv'
  OBVIOUS
<1>1. CASE Server
  BY <1>1, ServerIndex
<1>2. CASE ProcessThread
  BY <1>2, FetchUidsIndex, FetchHeadersIndex, FetchBodysIndex, RemoveMessagesIndex,
     RenumberIndex, PushIndex, IdleIndex DEF ProcessThread
<1>3. CASE IndexThread
  BY <1>3, SyncIndex, EnqueueSyncIndex, TakeNotifyIndex, RemovalIndex, ReadBodyIndex,
     BodyIndex, CommitIndex, StopIndex DEF IndexThread, Synchronise, Handle
<1>4. CASE Quit \/ Crash \/ Start
  BY <1>4, IdleIndex, StopIndex, StartIndex
<1>5. CASE UNCHANGED vars
  BY <1>5 DEF IndexInv, HeldInv, Held, Gone, StaleInv, LeavesLater, TodoInv, SyncInv,
              FoundInv, Stays, Coming, ComesLater, InHand, Current, vars, serverVars,
              cacheVars, processVars, syncVars, threadVars, indexVars, ghostVars
<1> QED
  BY <1>1, <1>2, <1>3, <1>4, <1>5 DEF Next

(* At rest nothing is on its way and nothing is to be committed.           *)
LEMMA RestAgrees == TypeInv /\ IndexInv => IndexAgrees
<1> SUFFICES ASSUME TypeInv, IndexInv, AtRest
             PROVE  /\ \A u \in bodys \cap headers :
                         u \in passed \cup outlived \/ committed[u] = valid
                    /\ \A u \in headers : u \in outlived \/ committed[u] \in {NoDoc, valid}
  BY DEF IndexAgrees
<1>1. running /\ pc = "wait" /\ syncDone /\ queue = <<>> /\ todo = <<>> /\ docs = committed
  BY DEF AtRest, TypeInv, CommitInv, BusyLabels
<1>2. headers \subseteq Uids
  BY DEF TypeInv, TypeOK
<1>3. ~LeavesLater
  BY <1>1 DEF LeavesLater
<1>4. \A u : ~Coming(u)
  BY <1>1, NothingIsClear DEF Coming, ComesLater, InHand
<1> QED
  BY <1>1, <1>2, <1>3, <1>4 DEF IndexInv, StaleInv, FoundInv, SyncLabels, Stays

(* Whenever the index is at rest it agrees with the cache, but for what was*)
(* passed over or has outlived its validity: notifications dropped before  *)
(* the synchronisation, crashes, and quitting with a queue that is not     *)
(* empty lose no message (ImapIndex, HandleSyncEnqueue(), NotifyIdle()).   *)
THEOREM AgreesAtRest == Spec => []IndexAgrees
<1> QED
  BY InitTypeInv, InitIndexInv, TypeStep, IndexStep, RestAgrees, PTL DEF Spec

=============================================================================
