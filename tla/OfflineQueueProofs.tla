--------------------------- MODULE OfflineQueueProofs ---------------------------
(***************************************************************************)
(* What the operators of OfflineQueue do to a directory, and what          *)
(* push_front() and pop_front() do to a queue, for the proofs about the    *)
(* modules that use them.                                                  *)
(***************************************************************************)
EXTENDS OfflineQueue, Sequences, TLAPS,
        FiniteSetTheorems, FunctionTheorems, WellFoundedInduction

(* A process has used at most as many indexes as there are files: one of   *)
(* the first is free.                                                      *)
LEMMA SomeIndexFree ==
  ASSUME NEW dir, IsFiniteSet(dir), NEW p
  PROVE  \E i \in 0 .. Cardinality(dir) : \A f \in dir : f.pid = p => f.idx # i
<1> DEFINE n == Cardinality(dir)
           fileAt == [i \in 0 .. n |-> CHOOSE f \in dir : f.pid = p /\ f.idx = i]
<1>1. n \in Nat
  BY FS_CardinalityType
<1>2. IsFiniteSet(0 .. n) /\ Cardinality(0 .. n) = n + 1
  BY <1>1, FS_Interval
<1>3. SUFFICES ASSUME \A i \in 0 .. n : \E f \in dir : f.pid = p /\ f.idx = i
               PROVE  FALSE
  OBVIOUS
<1>4. \A i \in 0 .. n : fileAt[i] \in dir /\ fileAt[i].idx = i
  BY <1>3
<1>5. fileAt \in [0 .. n -> dir]
  BY <1>4
<1> HIDE DEF fileAt
<1>6. \E i, j \in 0 .. n : i # j /\ fileAt[i] = fileAt[j]
  BY <1>1, <1>2, <1>5, FS_PigeonHole, n < n + 1
<1> QED
  BY <1>4, <1>6

(* The index of a new file is not in use: no file is overwritten.          *)
LEMMA FreeIndexIsFree ==
  ASSUME NEW dir, IsFiniteSet(dir), NEW p
  PROVE  /\ FreeIndex(dir, p) \in Nat
         /\ \A f \in dir : f.pid = p => f.idx # FreeIndex(dir, p)
<1> DEFINE n == Cardinality(dir)
           free == {i \in 0 .. n : \A f \in dir : f.pid = p => f.idx # i}
<1>1. n \in Nat
  BY FS_CardinalityType
<1>2. free \subseteq Nat /\ free # {}
  BY <1>1, SomeIndexFree
<1>3. \E i \in free : \A j \in free : ~ (<<j, i>> \in OpToRel(<, Nat))
  BY <1>2, WFMin, NatLessThanWellFounded
<1>4. PICK i \in free : \A j \in free : ~ (j < i)
  BY <1>2, <1>3 DEF OpToRel
<1>5. \A j \in 0 .. i - 1 : \E f \in dir : f.pid = p /\ f.idx = j
  BY <1>1, <1>4
<1>6. \E k \in 0 .. n :
        /\ \A f \in dir : f.pid = p => f.idx # k
        /\ \A j \in 0 .. k - 1 : \E f \in dir : f.pid = p /\ f.idx = j
  BY <1>4, <1>5
<1>7. /\ FreeIndex(dir, p) \in 0 .. n
      /\ \A f \in dir : f.pid = p => f.idx # FreeIndex(dir, p)
  BY <1>6 DEF FreeIndex
<1> QED
  BY <1>1, <1>7

(* A push adds one file and leaves the others alone.                       *)
LEMMA PushAdds ==
  ASSUME NEW dir \in SUBSET File, IsFiniteSet(dir), NEW p \in Pids, NEW m \in Msgs
  PROVE  \E f \in File :
           /\ f.pid = p /\ f.msg = m
           /\ \A g \in dir : g.pid = p => g.idx # f.idx
           /\ Push(dir, p, m) = dir \cup {f}
           /\ IsFiniteSet(Push(dir, p, m))
<1> DEFINE f == [pid |-> p, idx |-> FreeIndex(dir, p), msg |-> m]
<1>1. f \in File /\ f.pid = p /\ f.msg = m
  BY FreeIndexIsFree DEF File
<1>2. \A g \in dir : g.pid = p => g.idx # f.idx
  BY FreeIndexIsFree
<1>3. Push(dir, p, m) = dir \cup {f} /\ IsFiniteSet(dir \cup {f})
  BY FS_AddElement DEF Push
<1> QED
  BY <1>1, <1>2, <1>3

(* A pop divides the directory.                                            *)
LEMMA PopDivides ==
  ASSUME NEW dir, NEW p, NEW alive
  PROVE  \A f : /\ f \in Poppable(dir, p, alive)
                     <=> f \in dir /\ (f.pid = p \/ f.pid \notin alive)
                /\ f \in Remaining(dir, p, alive)
                     <=> f \in dir /\ f.pid # p /\ f.pid \in alive
BY DEF Poppable, Remaining, CanProcess

LEMMA RemainingFinite ==
  ASSUME NEW dir, IsFiniteSet(dir), NEW p, NEW alive
  PROVE  IsFiniteSet(Remaining(dir, p, alive))
BY FS_Difference DEF Remaining

-----------------------------------------------------------------------------

(* push_front(): the new element is the first, the others move up.         *)
LEMMA PushFront ==
  ASSUME NEW S, NEW s \in Seq(S), NEW e \in S
  PROVE  LET t == <<e>> \o s IN
         /\ t \in Seq(S) /\ Len(t) = Len(s) + 1
         /\ t[1] = e
         /\ \A i \in 1 .. Len(s) : i + 1 \in 1 .. Len(t) /\ t[i + 1] = s[i]
         /\ \A i \in 1 .. Len(t) : i = 1 \/ (i - 1 \in 1 .. Len(s) /\ t[i] = s[i - 1])
OBVIOUS

(* pop_front(): the others move down.                                      *)
LEMMA PopFront ==
  ASSUME NEW S, NEW s \in Seq(S), s # <<>>
  PROVE  LET t == Tail(s) IN
         /\ Head(s) = s[1] /\ s[1] \in S /\ 1 \in 1 .. Len(s)
         /\ t \in Seq(S) /\ Len(t) = Len(s) - 1
         /\ \A i \in 1 .. Len(t) : i + 1 \in 1 .. Len(s) /\ t[i] = s[i + 1]
         /\ \A i \in 1 .. Len(s) : i = 1 \/ (i - 1 \in 1 .. Len(t) /\ s[i] = t[i - 1])
OBVIOUS

(* push_back().                                                            *)
LEMMA PushBack ==
  ASSUME NEW S, NEW s \in Seq(S), NEW e \in S
  PROVE  LET t == Append(s, e) IN
         /\ t \in Seq(S) /\ Len(t) = Len(s) + 1
         /\ t[Len(t)] = e /\ Len(t) \in 1 .. Len(t)
         /\ \A i \in 1 .. Len(s) : i \in 1 .. Len(t) /\ t[i] = s[i]
         /\ \A i \in 1 .. Len(t) : i = Len(t) \/ (i \in 1 .. Len(s) /\ t[i] = s[i])
OBVIOUS

=============================================================================
