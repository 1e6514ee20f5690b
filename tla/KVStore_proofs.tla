---------------------------- MODULE KVStore_proofs ----------------------------
(***************************************************************************)
(* Facts about the writes of a key that the ledgers' proofs share.         *)
(*                                                                         *)
(* Ordered(R, s, ws, m): the contents s of the file, the writes ws under   *)
(* way and the value m in memory are each related by R to the later ones.  *)
(* For a reflexive and transitive R this is preserved by whatever the      *)
(* store does, whichever of the writes reach the disk.                     *)
(***************************************************************************)
EXTENDS KVStore, SequenceTheorems, TLAPS

Writes(W, V) == Seq([by : W, val : V])

Ordered(R, s, ws, m) ==
  /\ <<s, m>> \in R
  /\ \A i \in 1..Len(ws) : <<s, ws[i].val>> \in R /\ <<ws[i].val, m>> \in R
  /\ \A i, j \in 1..Len(ws) : i < j => <<ws[i].val, ws[j].val>> \in R

(* A call of write appends its value to the writes under way.              *)
LEMMA IssueProperties ==
  ASSUME NEW W, NEW V, NEW w \in W, NEW v \in V,
         writes \in Writes(W, V), IssueWrite(w, v)
  PROVE  /\ stored' = stored
         /\ writes' \in Writes(W, V)
         /\ Len(writes') = Len(writes) + 1
         /\ \A i \in 1..Len(writes) : writes'[i] = writes[i]
         /\ writes'[Len(writes) + 1] = [by |-> w, val |-> v]
<1> DEFINE r == [by |-> w, val |-> v]
<1>1. r \in [by : W, val : V]
  OBVIOUS
<1>2. writes' = Append(writes, r) /\ stored' = stored
  BY DEF IssueWrite
<1> HIDE DEF r
<1>3. /\ Append(writes, r) \in Seq([by : W, val : V])
      /\ Len(Append(writes, r)) = Len(writes) + 1
      /\ \A i \in 1..Len(writes) : Append(writes, r)[i] = writes[i]
      /\ Append(writes, r)[Len(writes) + 1] = r
  BY <1>1, AppendProperties DEF Writes
<1> QED  BY <1>2, <1>3 DEF Writes, r

(* A write that reaches the disk takes the writes before it with it.       *)
LEMMA CommitProperties ==
  ASSUME NEW W, NEW V, NEW w \in W,
         writes \in Writes(W, V), CommitWrite(w)
  PROVE  \E k \in 1..Len(writes) :
           /\ writes[k].by = w
           /\ stored' = writes[k].val
           /\ stored' \in V
           /\ writes' \in Writes(W, V)
           /\ Len(writes') = Len(writes) - k
           /\ \A i \in 1..(Len(writes) - k) : writes'[i] = writes[i + k]
<1>1. PICK k \in PendingOf(w) : /\ stored' = writes[k].val
                                /\ writes' = SubSeq(writes, k + 1, Len(writes))
  BY DEF CommitWrite
<1>2. /\ k \in 1..Len(writes) /\ writes[k].by = w
      /\ Len(writes) \in Nat
      /\ \A i \in 1..Len(writes) : writes[i] \in [by : W, val : V]
  BY <1>1, LenProperties, ElementOfSeq DEF PendingOf, Writes
<1>3. /\ SubSeq(writes, k + 1, Len(writes)) \in Seq([by : W, val : V])
      /\ Len(SubSeq(writes, k + 1, Len(writes))) =
           IF k + 1 <= Len(writes) THEN Len(writes) - (k + 1) + 1 ELSE 0
      /\ \A i \in 1..(Len(writes) - (k + 1) + 1) :
           SubSeq(writes, k + 1, Len(writes))[i] = writes[(k + 1) + i - 1]
  <2>1. k + 1 \in Int /\ Len(writes) \in Int /\ k \in Int
    BY <1>2
  <2>2. \A i \in (k + 1)..Len(writes) : writes[i] \in [by : W, val : V]
    BY <1>2
  <2> QED  BY <2>1, <2>2, SubSeqProperties
<1>4. /\ writes' \in Writes(W, V)
      /\ Len(writes') = Len(writes) - k
      /\ \A i \in 1..(Len(writes) - k) : writes'[i] = writes[i + k]
  BY <1>1, <1>2, <1>3 DEF Writes
<1> QED  BY <1>1, <1>2, <1>4

(* Whatever becomes of a write, the store keeps its type.                  *)
LEMMA FinishType ==
  ASSUME NEW W, NEW V, NEW w \in W,
         stored \in V, writes \in Writes(W, V), FinishWrite(w)
  PROVE  stored' \in V /\ writes' \in Writes(W, V)
<1>1. CASE CommitWrite(w)
  BY <1>1, CommitProperties
<1>2. CASE SkipWrite(w)
  BY <1>2 DEF SkipWrite, storeVars
<1> QED  BY <1>1, <1>2 DEF FinishWrite

(* A later value in memory.                                                *)
LEMMA OrderedLater ==
  ASSUME NEW R, NEW s, NEW ws, NEW m, NEW n,
         \A a, b, c : <<a, b>> \in R /\ <<b, c>> \in R => <<a, c>> \in R,
         Ordered(R, s, ws, m), <<m, n>> \in R
  PROVE  Ordered(R, s, ws, n)
  BY DEF Ordered

(* The value in memory is given to write.                                  *)
LEMMA OrderedIssue ==
  ASSUME NEW R, NEW W, NEW V, NEW w \in W, NEW m \in V,
         <<m, m>> \in R, writes \in Writes(W, V),
         Ordered(R, stored, writes, m), IssueWrite(w, m)
  PROVE  Ordered(R, stored', writes', m)
<1>1. /\ stored' = stored
      /\ Len(writes') = Len(writes) + 1
      /\ \A i \in 1..Len(writes) : writes'[i] = writes[i]
      /\ writes'[Len(writes) + 1] = [by |-> w, val |-> m]
  BY IssueProperties
<1>2. Len(writes) \in Nat
  BY LenProperties DEF Writes
<1>3. writes'[Len(writes) + 1].val = m
  BY <1>1
<1>4. \A i \in 1..Len(writes') : i \in 1..Len(writes) \/ i = Len(writes) + 1
  BY <1>1, <1>2
<1>5. <<stored', m>> \in R
  BY <1>1 DEF Ordered
<1>6. \A i \in 1..Len(writes') :
        <<stored', writes'[i].val>> \in R /\ <<writes'[i].val, m>> \in R
  BY <1>1, <1>3, <1>4 DEF Ordered
<1>7. ASSUME NEW i \in 1..Len(writes'), NEW j \in 1..Len(writes'), i < j
      PROVE  <<writes'[i].val, writes'[j].val>> \in R
  <2>1. i \in 1..Len(writes)
    BY <1>1, <1>2, <1>7
  <2>2. CASE j \in 1..Len(writes)
    BY <1>1, <1>7, <2>1, <2>2 DEF Ordered
  <2>3. CASE j = Len(writes) + 1
    BY <1>6, <1>3, <2>3, <1>7
  <2> QED  BY <1>4, <2>2, <2>3
<1> QED  BY <1>5, <1>6, <1>7 DEF Ordered

(* A write is finished: the order stays, and the file has not gone back.   *)
LEMMA OrderedFinish ==
  ASSUME NEW R, NEW W, NEW V, NEW w \in W, NEW m,
         stored \in V, writes \in Writes(W, V),
         <<stored, stored>> \in R,
         Ordered(R, stored, writes, m), FinishWrite(w)
  PROVE  Ordered(R, stored', writes', m) /\ <<stored, stored'>> \in R
<1>1. CASE CommitWrite(w)
  <2>1. PICK k \in 1..Len(writes) :
           /\ writes[k].by = w
           /\ stored' = writes[k].val
           /\ stored' \in V
           /\ writes' \in Writes(W, V)
           /\ Len(writes') = Len(writes) - k
           /\ \A i \in 1..(Len(writes) - k) : writes'[i] = writes[i + k]
    BY <1>1, CommitProperties, Zenon
  <2>2. Len(writes) \in Nat
    BY LenProperties DEF Writes
  <2>3. \A i \in 1..Len(writes') :
          /\ i + k \in 1..Len(writes)
          /\ k < i + k
          /\ writes'[i] = writes[i + k]
    BY <2>1, <2>2
  <2>4. \A i, j \in 1..Len(writes') : i < j => i + k < j + k
    BY <2>1, <2>2
  <2> QED  BY <2>1, <2>3, <2>4 DEF Ordered
<1>2. CASE SkipWrite(w)
  BY <1>2 DEF SkipWrite, storeVars
<1> QED  BY <1>1, <1>2 DEF FinishWrite
-----------------------------------------------------------------------------
(* What a task writes, on its way into the file.                           *)

NoneOf(ws, w)    == \A i \in 1..Len(ws) : ws[i].by # w
AtMostOne(ws, w) == \A i, j \in 1..Len(ws) : ws[i].by = w /\ ws[j].by = w => i = j

(* The file is good already, or every write of w that is under way is.     *)
Carried(Good, s, ws, w) ==
  \/ s \in Good
  \/ ~NoneOf(ws, w) /\ \A i \in 1..Len(ws) : ws[i].by = w => ws[i].val \in Good

(* No write that finishes stops what is carried, when what comes after a   *)
(* good value is good, and the end of w's own write brings it there.       *)
LEMMA CarriedFinish ==
  ASSUME NEW R, NEW W, NEW V, NEW Good, NEW w \in W, NEW u \in W, NEW m,
         stored \in V, writes \in Writes(W, V), <<stored, stored>> \in R,
         Ordered(R, stored, writes, m), Carried(Good, stored, writes, w),
         \A a, b : <<a, b>> \in R /\ a \in Good => b \in Good,
         FinishWrite(u)
  PROVE  Carried(Good, stored', writes', w) /\ (u = w => stored' \in Good)
<1>0. Len(writes) \in Nat /\ <<stored, stored'>> \in R
  BY LenProperties, OrderedFinish DEF Writes
<1>c. ASSUME CommitWrite(u)
      PROVE  \E k \in 1..Len(writes) :
               /\ writes[k].by = u
               /\ stored' = writes[k].val
               /\ stored' \in V
               /\ writes' \in Writes(W, V)
               /\ Len(writes') = Len(writes) - k
               /\ \A i \in 1..(Len(writes) - k) : writes'[i] = writes[i + k]
  BY <1>c, CommitProperties, Zenon
<1>1. CASE stored \in Good
  BY <1>0, <1>1 DEF Carried
<1>2. CASE stored \notin Good
  <2>1. PICK i \in 1..Len(writes) : writes[i].by = w
    BY <1>2 DEF Carried, NoneOf
  <2>2. \A j \in 1..Len(writes) : writes[j].by = w => writes[j].val \in Good
    BY <1>2 DEF Carried
  <2>3. CASE CommitWrite(u)
    <3>1. PICK k \in 1..Len(writes) :
             /\ writes[k].by = u
             /\ stored' = writes[k].val
             /\ Len(writes') = Len(writes) - k
             /\ \A j \in 1..(Len(writes) - k) : writes'[j] = writes[j + k]
      BY <2>3, <1>c
    <3>2. u = w => stored' \in Good
      BY <3>1, <2>2
    <3>3. CASE i <= k
      <4>1. i = k \/ <<writes[i].val, writes[k].val>> \in R
        BY <3>3, <1>0 DEF Ordered
      <4>2. writes[k].val \in Good
        BY <2>1, <2>2, <4>1
      <4> QED  BY <3>1, <3>2, <4>2 DEF Carried
    <3>4. CASE k < i
      <4>1. i - k \in 1..Len(writes') /\ writes'[i - k] = writes[i]
        BY <3>1, <3>4, <1>0
      <4>2. \A j \in 1..Len(writes') : j + k \in 1..Len(writes) /\ writes'[j] = writes[j + k]
        BY <3>1, <1>0
      <4>3. \A j \in 1..Len(writes') : writes'[j].by = w => writes'[j].val \in Good
        BY <4>2, <2>2
      <4> QED  BY <2>1, <3>2, <4>1, <4>3 DEF Carried, NoneOf
    <3> QED  BY <3>3, <3>4, <1>0
  <2>4. CASE SkipWrite(u)
    <3>1. u # w
      BY <2>1, <2>4 DEF SkipWrite, PendingOf
    <3>2. UNCHANGED <<stored, writes>>
      BY <2>4 DEF SkipWrite, storeVars
    <3> QED  BY <3>1, <3>2 DEF Carried, NoneOf
  <2> QED  BY <2>3, <2>4 DEF FinishWrite
<1> QED  BY <1>1, <1>2

(* Nor does a call of write, if what w writes is good.                     *)
LEMMA CarriedIssue ==
  ASSUME NEW W, NEW V, NEW Good, NEW w \in W, NEW u \in W, NEW v \in V,
         writes \in Writes(W, V), IssueWrite(u, v),
         u = w => v \in Good,
         Carried(Good, stored, writes, w) \/ (u = w /\ NoneOf(writes, w))
  PROVE  Carried(Good, stored', writes', w)
<1>1. /\ stored' = stored
      /\ Len(writes') = Len(writes) + 1
      /\ \A i \in 1..Len(writes) : writes'[i] = writes[i]
      /\ writes'[Len(writes) + 1] = [by |-> u, val |-> v]
  BY IssueProperties
<1>2. Len(writes) \in Nat
  BY LenProperties DEF Writes
<1>3. /\ \A i \in 1..Len(writes') : i \in 1..Len(writes) \/ i = Len(writes) + 1
      /\ Len(writes) + 1 \in 1..Len(writes')
      /\ \A i \in 1..Len(writes) : i \in 1..Len(writes')
  BY <1>1, <1>2
<1>4. writes'[Len(writes) + 1].by = u /\ writes'[Len(writes) + 1].val = v
  BY <1>1
<1>5. CASE stored \in Good
  BY <1>1, <1>5 DEF Carried
<1>6. CASE stored \notin Good
  <2>1. \A i \in 1..Len(writes) : writes[i].by = w => writes[i].val \in Good
    BY <1>6 DEF Carried, NoneOf
  <2>2. \A i \in 1..Len(writes') : writes'[i].by = w => writes'[i].val \in Good
    BY <1>1, <1>3, <1>4, <2>1
  <2>3. ~NoneOf(writes', w)
    <3>1. CASE u = w
      BY <1>3, <1>4, <3>1 DEF NoneOf
    <3>2. CASE u # w
      BY <1>1, <1>3, <1>6, <3>2 DEF Carried, NoneOf
    <3> QED  BY <3>1, <3>2
  <2> QED  BY <2>2, <2>3 DEF Carried
<1> QED  BY <1>5, <1>6

(* A task that awaits each of its writes has at most one under way, and    *)
(* none once the await is over.                                            *)
LEMMA OneFinish ==
  ASSUME NEW W, NEW V, NEW w \in W, NEW u \in W, writes \in Writes(W, V),
         AtMostOne(writes, w), FinishWrite(u)
  PROVE  /\ AtMostOne(writes', w)
         /\ u = w \/ NoneOf(writes, w) => NoneOf(writes', w)
<1>1. CASE CommitWrite(u)
  <2>1. PICK k \in 1..Len(writes) :
           /\ writes[k].by = u
           /\ stored' = writes[k].val
           /\ stored' \in V
           /\ writes' \in Writes(W, V)
           /\ Len(writes') = Len(writes) - k
           /\ \A i \in 1..(Len(writes) - k) : writes'[i] = writes[i + k]
    BY <1>1, CommitProperties, Zenon
  <2>2. Len(writes) \in Nat
    BY LenProperties DEF Writes
  <2>3. \A j \in 1..Len(writes') :
          j + k \in 1..Len(writes) /\ j + k # k /\ writes'[j] = writes[j + k]
    BY <2>1, <2>2
  <2>4. \A i, j \in 1..Len(writes') : i + k = j + k => i = j
    BY <2>1, <2>2
  <2>5. AtMostOne(writes', w)
    <3> SUFFICES ASSUME NEW i \in 1..Len(writes'), NEW j \in 1..Len(writes'),
                        writes'[i].by = w, writes'[j].by = w
                 PROVE  i = j
      BY DEF AtMostOne
    <3>1. i + k = j + k
      BY <2>3 DEF AtMostOne
    <3> QED  BY <2>4, <3>1
  <2>6. CASE u = w
    BY <2>1, <2>3, <2>5, <2>6 DEF NoneOf, AtMostOne
  <2>7. CASE NoneOf(writes, w)
    BY <2>3, <2>5, <2>7 DEF NoneOf
  <2> QED  BY <2>5, <2>6, <2>7
<1>2. CASE SkipWrite(u)
  BY <1>2 DEF SkipWrite, PendingOf, storeVars, NoneOf, AtMostOne
<1> QED  BY <1>1, <1>2 DEF FinishWrite

LEMMA OneIssue ==
  ASSUME NEW W, NEW V, NEW w \in W, NEW u \in W, NEW v \in V,
         writes \in Writes(W, V), IssueWrite(u, v),
         AtMostOne(writes, w), u # w \/ NoneOf(writes, w)
  PROVE  /\ AtMostOne(writes', w)
         /\ u # w /\ NoneOf(writes, w) => NoneOf(writes', w)
<1>1. /\ Len(writes') = Len(writes) + 1
      /\ \A i \in 1..Len(writes) : writes'[i] = writes[i]
      /\ writes'[Len(writes) + 1] = [by |-> u, val |-> v]
  BY IssueProperties
<1>2. \A i \in 1..Len(writes') : i \in 1..Len(writes) \/ i = Len(writes) + 1
  BY <1>1, LenProperties DEF Writes
<1> QED  BY <1>1, <1>2 DEF NoneOf, AtMostOne

(* The last call of write has what is in memory; with none under way, the  *)
(* file has it.                                                            *)
UpToDate(s, ws, m) == IF Len(ws) = 0 THEN s = m ELSE ws[Len(ws)].val = m

LEMMA UpToDateIssue ==
  ASSUME NEW W, NEW V, NEW w \in W, NEW m \in V, writes \in Writes(W, V), IssueWrite(w, m)
  PROVE  UpToDate(stored', writes', m)
<1>1. Len(writes') = Len(writes) + 1 /\ writes'[Len(writes) + 1] = [by |-> w, val |-> m]
  BY IssueProperties
<1>2. Len(writes) \in Nat
  BY LenProperties DEF Writes
<1>3. writes'[Len(writes')].val = m /\ Len(writes') # 0
  BY <1>1, <1>2
<1> QED  BY <1>3 DEF UpToDate

LEMMA UpToDateFinish ==
  ASSUME NEW W, NEW V, NEW w \in W, NEW m, writes \in Writes(W, V),
         UpToDate(stored, writes, m), FinishWrite(w)
  PROVE  UpToDate(stored', writes', m)
<1>1. CASE CommitWrite(w)
  <2>1. PICK k \in 1..Len(writes) :
           /\ writes[k].by = w
           /\ stored' = writes[k].val
           /\ stored' \in V
           /\ writes' \in Writes(W, V)
           /\ Len(writes') = Len(writes) - k
           /\ \A i \in 1..(Len(writes) - k) : writes'[i] = writes[i + k]
    BY <1>1, CommitProperties, Zenon
  <2>2. Len(writes) \in Nat
    BY LenProperties DEF Writes
  <2>3. CASE k = Len(writes)
    BY <2>1, <2>2, <2>3 DEF UpToDate
  <2>4. CASE k < Len(writes)
    <3>1. /\ Len(writes') # 0
          /\ Len(writes') \in 1..(Len(writes) - k) /\ Len(writes') + k = Len(writes)
      BY <2>1, <2>2, <2>4
    <3>2. writes'[Len(writes')] = writes[Len(writes)]
      BY <2>1, <3>1
    <3> QED  BY <2>2, <2>4, <3>1, <3>2 DEF UpToDate
  <2> QED  BY <2>2, <2>3, <2>4
<1>2. CASE SkipWrite(w)
  BY <1>2 DEF SkipWrite, storeVars
<1> QED  BY <1>1, <1>2 DEF FinishWrite
=============================================================================
