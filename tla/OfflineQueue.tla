----------------------------- MODULE OfflineQueue -----------------------------
(***************************************************************************)
(* The directories of OfflineQueue, which all running nmail processes with *)
(* one configuration share.  A file is named <pid>.<idx>.eml and holds one *)
(* message; a directory is the set of its files.  The directories have no  *)
(* lock across processes: a process leaves the files of other processes    *)
(* alone as long as those run.                                             *)
(***************************************************************************)
EXTENDS Naturals, FiniteSets

CONSTANTS
  Pids,   \* process ids: a start of the program uses a fresh one
  Msgs    \* messages

File == [pid : Pids, idx : Nat, msg : Msgs]

(* Mutant: other running processes are not respected. *)
CanProcessAny(p, f, alive) == TRUE

CanProcess(p, f, alive) == f.pid = p \/ f.pid \notin alive

(* Mutant: files are read but not deleted. *)
RemainingAll(dir, p, alive) == dir

(* PopMessages of process p: what it takes out and what it leaves. *)
Poppable(dir, p, alive) == {f \in dir : CanProcess(p, f, alive)}
Remaining(dir, p, alive) == dir \ Poppable(dir, p, alive)

(* The first index that process p does not use yet. *)
FreeIndex(dir, p) ==
  CHOOSE i \in 0 .. Cardinality(dir) :
    /\ \A f \in dir : f.pid = p => f.idx # i
    /\ \A j \in 0 .. i - 1 : \E f \in dir : f.pid = p /\ f.idx = j

(* PushDraftMessage and PushOutboxMessage. *)
Push(dir, p, m) == dir \cup {[pid |-> p, idx |-> FreeIndex(dir, p), msg |-> m]}

(* Mutant: a backup takes a free index, like a draft. *)
ReplacePushing(dir, p, m) == Push(dir, p, m)

(* PushComposeMessage: the message is moved over the compose file with     *)
(* index 0, the only one that a process should have.                       *)
Replace(dir, p, m) ==
  {f \in dir : f.pid # p \/ f.idx # 0} \cup {[pid |-> p, idx |-> 0, msg |-> m]}

Holds(dir, m) == \E f \in dir : f.msg = m

=============================================================================
