-------------------------- MODULE JournalReplayProofs --------------------------
(***************************************************************************)
(* The deques of replay_journal hold what the counters of ExecutionProtocol *)
(* say, for transactions of any size and for any sequence of records.      *)
(***************************************************************************)
EXTENDS JournalReplay, SequenceTheorems, TLAPS

(***************************************************************************)
(* Ranges of steps and ranges backwards.                                   *)
(***************************************************************************)
Backwards(n) == Reverse(BatchSteps(0, n))

LEMMA BatchIsARange ==
  ASSUME NEW n \in Nat, NEW k \in Nat
  PROVE  /\ BatchSteps(n, k) \in Seq(Nat) /\ Len(BatchSteps(n, k)) = k
         /\ \A i \in 1..k : BatchSteps(n, k)[i] = n + i - 1
  BY DEF BatchSteps

LEMMA EmptyBatch ==
  ASSUME NEW n \in Nat, NEW k \in Nat
  PROVE  BatchSteps(n, k) = << >> <=> k = 0
  <1>1. BatchSteps(n, k) \in Seq(Nat) /\ Len(BatchSteps(n, k)) = k
    BY BatchIsARange
  <1> QED BY <1>1

LEMMA FrontOfBatch ==
  ASSUME NEW n \in Nat, NEW k \in Nat
  PROVE  FrontOf(BatchSteps(n, k)) = IF k = 0 THEN NoStep ELSE n
  <1>1. k # 0 => Head(BatchSteps(n, k)) = n
    <2> DEFINE b == BatchSteps(n, k)
    <2>1. b \in Seq(Nat) /\ Len(b) = k /\ \A i \in 1..k : b[i] = n + i - 1
      BY BatchIsARange
    <2> HIDE DEF b
    <2>2. k # 0 => Head(b) = b[1] /\ b[1] = n
      BY <2>1
    <2> QED BY <2>2 DEF b
  <1> QED BY <1>1, EmptyBatch DEF FrontOf

LEMMA TailOfBatch ==
  ASSUME NEW n \in Nat, NEW k \in Nat, k > 0
  PROVE  Tail(BatchSteps(n, k)) = BatchSteps(n + 1, k - 1)
  <1> DEFINE b == BatchSteps(n, k)
             c == BatchSteps(n + 1, k - 1)
  <1>1. b \in Seq(Nat) /\ Len(b) = k /\ \A i \in 1..k : b[i] = n + i - 1
    BY BatchIsARange
  <1>2. c \in Seq(Nat) /\ Len(c) = k - 1 /\ \A i \in 1..(k - 1) : c[i] = (n + 1) + i - 1
    BY BatchIsARange
  <1> HIDE DEF b, c
  <1>3. Tail(b) \in Seq(Nat) /\ Len(Tail(b)) = k - 1 /\ \A i \in 1..(k - 1) : Tail(b)[i] = b[i + 1]
    BY <1>1
  <1>4. \A i \in 1..(k - 1) : Tail(b)[i] = c[i]
    BY <1>1, <1>2, <1>3
  <1>5. Tail(b) = c
    BY <1>2, <1>3, <1>4, SeqEqual
  <1> QED BY <1>5 DEF b, c

LEMMA BatchGrows ==
  ASSUME NEW n \in Nat
  PROVE  Append(BatchSteps(0, n), n) = BatchSteps(0, n + 1)
  <1> DEFINE b == BatchSteps(0, n)
             c == BatchSteps(0, n + 1)
  <1>1. b \in Seq(Nat) /\ Len(b) = n /\ \A i \in 1..n : b[i] = 0 + i - 1
    BY BatchIsARange
  <1>2. c \in Seq(Nat) /\ Len(c) = n + 1 /\ \A i \in 1..(n + 1) : c[i] = 0 + i - 1
    BY BatchIsARange
  <1> HIDE DEF b, c
  <1>3. /\ Append(b, n) \in Seq(Nat) /\ Len(Append(b, n)) = n + 1
        /\ \A i \in 1..n : Append(b, n)[i] = b[i]
        /\ Append(b, n)[n + 1] = n
    BY <1>1
  <1>4. \A i \in 1..(n + 1) : Append(b, n)[i] = c[i]
    BY <1>1, <1>2, <1>3
  <1>5. Append(b, n) = c
    BY <1>2, <1>3, <1>4, SeqEqual
  <1> QED BY <1>5 DEF b, c

LEMMA BatchOfOne ==
  ASSUME NEW n \in Nat
  PROVE  Append(<< >>, n) = BatchSteps(n, 1)
  <1> DEFINE b == BatchSteps(n, 1)
  <1>1. b \in Seq(Nat) /\ Len(b) = 1 /\ b[1] = n
    <2>1. b \in Seq(Nat) /\ Len(b) = 1 /\ \A i \in 1..1 : b[i] = n + i - 1
      BY BatchIsARange
    <2> HIDE DEF b
    <2> QED BY <2>1
  <1> HIDE DEF b
  <1>2. Append(<< >>, n) \in Seq(Nat) /\ Len(Append(<< >>, n)) = 1 /\ Append(<< >>, n)[1] = n
    OBVIOUS
  <1>3. \A i \in 1..1 : Append(<< >>, n)[i] = b[i]
    BY <1>1, <1>2
  <1>4. Append(<< >>, n) = b
    BY <1>1, <1>2, <1>3, SeqEqual
  <1> QED BY <1>4 DEF b

LEMMA BackwardsIsARange ==
  ASSUME NEW n \in Nat
  PROVE  /\ Backwards(n) \in Seq(Nat) /\ Len(Backwards(n)) = n
         /\ \A i \in 1..n : Backwards(n)[i] = n - i
  <1> DEFINE b == BatchSteps(0, n)
  <1>1. b \in Seq(Nat) /\ Len(b) = n /\ \A i \in 1..n : b[i] = 0 + i - 1
    BY BatchIsARange
  <1>2. Backwards(n) = [i \in 1..Len(b) |-> b[(Len(b) - i) + 1]]
    BY DEF Backwards, Reverse
  <1> HIDE DEF b
  <1>3. \A i \in 1..n : b[(n - i) + 1] = n - i /\ n - i \in Nat
    BY <1>1
  <1>4. Backwards(n) = [i \in 1..n |-> n - i]
    BY <1>1, <1>2, <1>3
  <1> QED BY <1>4

LEMMA FrontOfBackwards ==
  ASSUME NEW n \in Nat
  PROVE  FrontOf(Backwards(n)) = n - 1 /\ (Backwards(n) = << >> <=> n = 0)
  <1>1. Backwards(n) \in Seq(Nat) /\ Len(Backwards(n)) = n /\ \A i \in 1..n : Backwards(n)[i] = n - i
    BY BackwardsIsARange
  <1>2. Backwards(n) = << >> <=> n = 0
    BY <1>1
  <1>3. n # 0 => Head(Backwards(n)) = n - 1
    BY <1>1
  <1> QED BY <1>2, <1>3 DEF FrontOf, NoStep

LEMMA TailOfBackwards ==
  ASSUME NEW n \in Nat, n > 0
  PROVE  Tail(Backwards(n)) = Backwards(n - 1)
  <1> DEFINE b == Backwards(n)
             c == Backwards(n - 1)
  <1>1. b \in Seq(Nat) /\ Len(b) = n /\ \A i \in 1..n : b[i] = n - i
    BY BackwardsIsARange
  <1>2. c \in Seq(Nat) /\ Len(c) = n - 1 /\ \A i \in 1..(n - 1) : c[i] = (n - 1) - i
    BY BackwardsIsARange
  <1> HIDE DEF b, c
  <1>3. Tail(b) \in Seq(Nat) /\ Len(Tail(b)) = n - 1 /\ \A i \in 1..(n - 1) : Tail(b)[i] = b[i + 1]
    BY <1>1
  <1>4. \A i \in 1..(n - 1) : Tail(b)[i] = c[i]
    BY <1>1, <1>2, <1>3
  <1>5. Tail(b) = c
    BY <1>2, <1>3, <1>4, SeqEqual
  <1> QED BY <1>5 DEF b, c

-----------------------------------------------------------------------------
(***************************************************************************)
(* The deques and the counters they stand for.                             *)
(***************************************************************************)
IsForward(q, n, k) ==
  /\ n \in Nat /\ k \in Nat /\ n + k <= StepCount
  /\ q = Forward(n, BatchSteps(0, n), BatchSteps(n, k))

IsRollback(q, n, k) ==
  /\ n \in 0..StepCount /\ k \in {0, 1} /\ k <= n
  /\ q = Rollback(Backwards(n), IF k = 0 THEN NoStep ELSE n - 1)

IsFailedAt(q, n) == n \in 1..StepCount /\ q = RecoveryRequiredAt(n - 1, Backwards(n))

\* q, a ReplayMode, is what the counters c say it is.
StandsFor(q, c) ==
  \/ q = Unread /\ c = NoJournal
  \/ \E n \in Nat, k \in Nat : IsForward(q, n, k) /\ c = Mode("forward", n, k)
  \/ \E n \in Nat, k \in Nat : IsRollback(q, n, k) /\ c = Mode("rollback", n, k)
  \/ \E n \in Nat : IsFailedAt(q, n) /\ c = Mode("failed", n, 0)
  \/ q = Completed /\ c = Mode("completed", StepCount, 0)
  \/ q = RolledBack /\ c = Mode("rolledback", 0, 0)
  \/ q = Failed /\ c = Rejected

LEMMA RecordsHaveSteps ==
  ASSUME NEW r \in Records
  PROVE  r.step \in Nat /\ r.count \in Nat /\ r.step # NoStep
  BY NAssumption DEF Records, Rec, StepCount, NoStep

LEMMA ForwardParts ==
  ASSUME NEW q, NEW n, NEW k, IsForward(q, n, k)
  PROVE  /\ n \in Nat /\ k \in Nat /\ n + k <= StepCount
         /\ q.kind = "Forward" /\ q.next_step = n
         /\ q.completed_steps = BatchSteps(0, n) /\ q.prepared_steps = BatchSteps(n, k)
         /\ q.prepared_steps = << >> <=> k = 0
         /\ FrontOf(q.prepared_steps) = (IF k = 0 THEN NoStep ELSE n)
         /\ \A p : [q EXCEPT !.prepared_steps = p] = Forward(n, BatchSteps(0, n), p)
  <1>1. n \in Nat /\ k \in Nat /\ n + k <= StepCount
        /\ q = Forward(n, BatchSteps(0, n), BatchSteps(n, k))
    BY DEF IsForward
  <1>2. /\ q.kind = "Forward" /\ q.next_step = n
        /\ q.completed_steps = BatchSteps(0, n) /\ q.prepared_steps = BatchSteps(n, k)
        /\ \A p : [q EXCEPT !.prepared_steps = p] = Forward(n, BatchSteps(0, n), p)
    BY <1>1 DEF Forward
  <1> QED BY <1>1, <1>2, EmptyBatch, FrontOfBatch

\* apply_forward_record moves both alike.
LEMMA ForwardAgrees ==
  ASSUME NEW q, NEW n, NEW k, IsForward(q, n, k), NEW r \in Records
  PROVE  StandsFor(ForwardRecord(q, r), ApplyForward(Mode("forward", n, k), r))
  <1> DEFINE m == Mode("forward", n, k)
  <1>1. /\ n \in Nat /\ k \in Nat /\ n + k <= StepCount
        /\ q.kind = "Forward" /\ q.next_step = n
        /\ q.completed_steps = BatchSteps(0, n) /\ q.prepared_steps = BatchSteps(n, k)
        /\ q.prepared_steps = << >> <=> k = 0
        /\ FrontOf(q.prepared_steps) = (IF k = 0 THEN NoStep ELSE n)
        /\ \A p : [q EXCEPT !.prepared_steps = p] = Forward(n, BatchSteps(0, n), p)
    BY ForwardParts
  <1>2. m.next = n /\ m.prepared = k /\ StepCount \in Nat
    BY NAssumption DEF Mode, StepCount
  <1>3. r.step \in Nat /\ r.count \in Nat /\ r.step # NoStep
    BY RecordsHaveSteps
  <1> DEFINE p == q.prepared_steps
             empty == p = << >>
             front == FrontOf(p)
  <1>4. empty <=> k = 0
    BY <1>1
  <1>5. front = r.step <=> k > 0 /\ r.step = n
    BY <1>1, <1>3
  <1> HIDE DEF m
  <1>6. CASE r.type = "ForwardBatchPrepared"
    <2>1. CASE k = 0 /\ n = r.step /\ r.count > 0 /\ r.step + r.count <= StepCount
      <3>1. ForwardRecord(q, r) = Forward(n, BatchSteps(0, n), BatchSteps(n, r.count))
        BY <1>1, <1>3, <1>6, <2>1 DEF ForwardRecord
      <3>2. ApplyForward(m, r) = Mode("forward", n, r.count)
        BY <1>2, <1>6, <2>1 DEF ApplyForward
      <3>3. IsForward(ForwardRecord(q, r), n, r.count)
        BY <1>1, <1>3, <2>1, <3>1 DEF IsForward
      <3> QED BY <1>1, <1>3, <3>2, <3>3 DEF StandsFor, m
    <2>2. CASE ~(k = 0 /\ n = r.step /\ r.count > 0 /\ r.step + r.count <= StepCount)
      <3>1. ForwardRecord(q, r) = Failed
        BY <1>1, <1>3, <1>6, <2>2 DEF ForwardRecord
      <3>2. ApplyForward(m, r) = Rejected
        BY <1>1, <1>2, <1>3, <1>6, <2>2 DEF ApplyForward
      <3> QED BY <3>1, <3>2 DEF StandsFor, m
    <2> QED BY <2>1, <2>2
  <1>7. CASE r.type = "ForwardStepPrepared"
    <2>1. CASE k = 0 /\ n < StepCount /\ n = r.step
      <3>1. ForwardRecord(q, r) = Forward(n, BatchSteps(0, n), BatchSteps(n, 1))
        <4>1. Append(p, r.step) = BatchSteps(n, 1)
          BY <1>1, <2>1, BatchOfOne
        <4>2. ForwardRecord(q, r) = [q EXCEPT !.prepared_steps = Append(@, r.step)]
          BY <1>1, <1>7, <2>1 DEF ForwardRecord
        <4> QED BY <1>1, <4>1, <4>2
      <3>2. ApplyForward(m, r) = Mode("forward", n, 1)
        BY <1>2, <1>7, <2>1 DEF ApplyForward
      <3>3. IsForward(ForwardRecord(q, r), n, 1)
        BY <1>1, <1>2, <2>1, <3>1 DEF IsForward
      <3> QED BY <1>1, <3>2, <3>3 DEF StandsFor, m
    <2>2. CASE ~(k = 0 /\ n < StepCount /\ n = r.step)
      <3>1. ForwardRecord(q, r) = Failed
        BY <1>1, <1>7, <2>2 DEF ForwardRecord
      <3>2. ApplyForward(m, r) = Rejected
        BY <1>2, <1>7, <2>2 DEF ApplyForward
      <3> QED BY <3>1, <3>2 DEF StandsFor, m
    <2> QED BY <2>1, <2>2
  <1>8. CASE r.type = "ForwardStepCompleted"
    <2>1. CASE k > 0 /\ r.step = n
      <3>1. ForwardRecord(q, r) = Forward(n + 1, BatchSteps(0, n + 1), BatchSteps(n + 1, k - 1))
        <4>1. Append(q.completed_steps, r.step) = BatchSteps(0, n + 1)
          BY <1>1, <2>1, BatchGrows
        <4>2. Tail(q.prepared_steps) = BatchSteps(n + 1, k - 1)
          BY <1>1, <2>1, TailOfBatch
        <4>3. ForwardRecord(q, r) = Forward(q.next_step + 1, Append(q.completed_steps, r.step),
                                            Tail(q.prepared_steps))
          BY <1>1, <1>5, <1>8, <2>1 DEF ForwardRecord
        <4> QED BY <1>1, <4>1, <4>2, <4>3
      <3>2. ApplyForward(m, r) = Mode("forward", n + 1, k - 1)
        BY <1>2, <1>8, <2>1 DEF ApplyForward
      <3>3. IsForward(ForwardRecord(q, r), n + 1, k - 1)
        BY <1>1, <1>2, <2>1, <3>1 DEF IsForward
      <3>4. n + 1 \in Nat /\ k - 1 \in Nat
        BY <1>1, <2>1
      <3> QED BY <3>2, <3>3, <3>4 DEF StandsFor, m
    <2>2. CASE ~(k > 0 /\ r.step = n)
      <3>1. ForwardRecord(q, r) = Failed
        BY <1>5, <1>8, <2>2 DEF ForwardRecord
      <3>2. ApplyForward(m, r) = Rejected
        BY <1>2, <1>8, <2>2 DEF ApplyForward
      <3> QED BY <3>1, <3>2 DEF StandsFor, m
    <2> QED BY <2>1, <2>2
  <1>9. CASE r.type = "ForwardStepNotApplied"
    <2>1. CASE k > 0 /\ r.step = n
      <3>1. ForwardRecord(q, r) = Forward(n, BatchSteps(0, n), BatchSteps(n, 0))
        <4>1. ForwardRecord(q, r) = [q EXCEPT !.prepared_steps = << >>]
          BY <1>5, <1>9, <2>1 DEF ForwardRecord
        <4>2. BatchSteps(n, 0) = << >>
          BY <1>1, EmptyBatch
        <4> QED BY <1>1, <4>1, <4>2
      <3>2. ApplyForward(m, r) = Mode("forward", n, 0)
        BY <1>2, <1>9, <2>1 DEF ApplyForward
      <3>3. IsForward(ForwardRecord(q, r), n, 0)
        BY <1>1, <1>2, <3>1 DEF IsForward
      <3> QED BY <1>1, <3>2, <3>3 DEF StandsFor, m
    <2>2. CASE ~(k > 0 /\ r.step = n)
      <3>1. ForwardRecord(q, r) = Failed
        BY <1>5, <1>9, <2>2 DEF ForwardRecord
      <3>2. ApplyForward(m, r) = Rejected
        BY <1>2, <1>9, <2>2 DEF ApplyForward
      <3> QED BY <3>1, <3>2 DEF StandsFor, m
    <2> QED BY <2>1, <2>2
  <1>10. CASE \/ r.type = "RollbackStartedCancelled"
              \/ r.type = "RollbackStartedRecoveryRequested"
              \/ r.type = "RollbackStartedForwardStepFailed"
    <2> DEFINE starts == \/ r.type = "RollbackStartedCancelled"
                         \/ r.type = "RollbackStartedRecoveryRequested" /\ k = 0
                         \/ r.type = "RollbackStartedForwardStepFailed" /\ k > 0 /\ r.step = n
    <2>1. CASE starts
      <3>1. ForwardRecord(q, r) = Rollback(Backwards(n), NoStep)
        <4>1. ForwardRecord(q, r) = StartRollback(q)
          BY <1>1, <1>5, <1>10, <2>1 DEF ForwardRecord
        <4> QED BY <1>1, <4>1 DEF StartRollback, Backwards
      <3>2. ApplyForward(m, r) = Mode("rollback", n, 0)
        BY <1>2, <1>10, <2>1 DEF ApplyForward
      <3>3. IsRollback(ForwardRecord(q, r), n, 0)
        BY <1>1, <1>2, <3>1 DEF IsRollback
      <3> QED BY <1>1, <3>2, <3>3 DEF StandsFor, m
    <2>2. CASE ~starts
      <3>1. ForwardRecord(q, r) = Failed
        BY <1>1, <1>5, <1>10, <2>2 DEF ForwardRecord
      <3>2. ApplyForward(m, r) = Rejected
        BY <1>2, <1>10, <2>2 DEF ApplyForward
      <3> QED BY <3>1, <3>2 DEF StandsFor, m
    <2> QED BY <2>1, <2>2
  <1>11. CASE r.type = "TransactionCompleted"
    <2>1. CASE k = 0 /\ n = StepCount
      <3>1. ForwardRecord(q, r) = Completed
        BY <1>1, <1>11, <2>1 DEF ForwardRecord
      <3>2. ApplyForward(m, r) = Mode("completed", StepCount, 0)
        BY <1>2, <1>11, <2>1 DEF ApplyForward
      <3> QED BY <3>1, <3>2 DEF StandsFor, m
    <2>2. CASE ~(k = 0 /\ n = StepCount)
      <3>1. ForwardRecord(q, r) = Failed
        BY <1>1, <1>11, <2>2 DEF ForwardRecord
      <3>2. ApplyForward(m, r) = Rejected
        BY <1>2, <1>11, <2>2 DEF ApplyForward
      <3> QED BY <3>1, <3>2 DEF StandsFor, m
    <2> QED BY <2>1, <2>2
  <1>12. CASE r.type \notin {"ForwardBatchPrepared", "ForwardStepPrepared", "ForwardStepCompleted",
                             "ForwardStepNotApplied", "RollbackStartedCancelled",
                             "RollbackStartedRecoveryRequested",
                             "RollbackStartedForwardStepFailed", "TransactionCompleted"}
    <2>1. ForwardRecord(q, r) = Failed
      BY <1>12 DEF ForwardRecord
    <2>2. ApplyForward(m, r) = Rejected
      BY <1>12 DEF ApplyForward
    <2> QED BY <2>1, <2>2 DEF StandsFor, m
  <1> QED BY <1>6, <1>7, <1>8, <1>9, <1>10, <1>11, <1>12

\* apply_rollback_record moves both alike.
LEMMA RollbackAgrees ==
  ASSUME NEW q, NEW n, NEW k, IsRollback(q, n, k), NEW r \in Records
  PROVE  StandsFor(RollbackRecord(q, r), ApplyRollback(Mode("rollback", n, k), r))
  <1> DEFINE m == Mode("rollback", n, k)
  <1>1. /\ n \in Nat /\ n <= StepCount /\ k \in {0, 1} /\ k <= n /\ StepCount \in Nat
        /\ q = Rollback(Backwards(n), IF k = 0 THEN NoStep ELSE n - 1)
    BY NAssumption DEF IsRollback, StepCount
  <1>2. m.next = n /\ m.prepared = k
    BY DEF Mode
  <1>3. r.step \in Nat /\ r.step # NoStep
    BY RecordsHaveSteps
  <1>4. /\ q.remaining_steps = Backwards(n)
        /\ q.prepared_step = (IF k = 0 THEN NoStep ELSE n - 1)
    BY <1>1 DEF Rollback
  <1>5. FrontOf(q.remaining_steps) = n - 1 /\ (q.remaining_steps = << >> <=> n = 0)
    BY <1>1, <1>4, FrontOfBackwards
  <1>6. /\ q.prepared_step = NoStep <=> k = 0
        /\ q.prepared_step = r.step <=> k = 1 /\ r.step = n - 1
        /\ FrontOf(q.remaining_steps) = r.step <=> n > 0 /\ r.step = n - 1
    BY <1>1, <1>3, <1>4, <1>5 DEF NoStep
  <1> HIDE DEF m
  <1>7. CASE r.type = "RollbackStepPrepared"
    <2>1. CASE k = 0 /\ n > 0 /\ r.step = n - 1
      <3>1. RollbackRecord(q, r) = Rollback(Backwards(n), n - 1)
        BY <1>4, <1>6, <1>7, <2>1 DEF RollbackRecord
      <3>2. ApplyRollback(m, r) = Mode("rollback", n, 1)
        BY <1>2, <1>7, <2>1 DEF ApplyRollback
      <3>3. IsRollback(RollbackRecord(q, r), n, 1)
        BY <1>1, <2>1, <3>1 DEF IsRollback
      <3> QED BY <1>1, <3>2, <3>3 DEF StandsFor, m
    <2>2. CASE ~(k = 0 /\ n > 0 /\ r.step = n - 1)
      <3>1. RollbackRecord(q, r) = Failed
        BY <1>6, <1>7, <2>2 DEF RollbackRecord
      <3>2. ApplyRollback(m, r) = Rejected
        BY <1>2, <1>7, <2>2 DEF ApplyRollback
      <3> QED BY <3>1, <3>2 DEF StandsFor, m
    <2> QED BY <2>1, <2>2
  <1>8. CASE r.type \in {"RollbackStepCompleted", "RollbackStepNotApplied", "RollbackStepFailed"}
    <2>1. CASE k = 1 /\ r.step = n - 1
      <3>1. n > 0 /\ n - 1 \in Nat
        BY <1>1, <2>1
      <3>2. CASE r.type = "RollbackStepCompleted"
        <4>1. RollbackRecord(q, r) = Rollback(Backwards(n - 1), NoStep)
          <5>1. RollbackRecord(q, r) = Rollback(Tail(q.remaining_steps), NoStep)
            BY <1>6, <2>1, <3>2 DEF RollbackRecord
          <5>2. Tail(q.remaining_steps) = Backwards(n - 1)
            BY <1>1, <1>4, <3>1, TailOfBackwards
          <5> QED BY <5>1, <5>2
        <4>2. ApplyRollback(m, r) = Mode("rollback", n - 1, 0)
          BY <1>2, <2>1, <3>2 DEF ApplyRollback
        <4>3. IsRollback(RollbackRecord(q, r), n - 1, 0)
          BY <1>1, <3>1, <4>1 DEF IsRollback
        <4> QED BY <3>1, <4>2, <4>3 DEF StandsFor, m
      <3>3. CASE r.type = "RollbackStepNotApplied"
        <4>1. RollbackRecord(q, r) = Rollback(Backwards(n), NoStep)
          BY <1>4, <1>6, <2>1, <3>3 DEF RollbackRecord
        <4>2. ApplyRollback(m, r) = Mode("rollback", n, 0)
          BY <1>2, <2>1, <3>3 DEF ApplyRollback
        <4>3. IsRollback(RollbackRecord(q, r), n, 0)
          BY <1>1, <4>1 DEF IsRollback
        <4> QED BY <1>1, <4>2, <4>3 DEF StandsFor, m
      <3>4. CASE r.type = "RollbackStepFailed"
        <4>1. RollbackRecord(q, r) = RecoveryRequiredAt(n - 1, Backwards(n))
          BY <1>4, <1>6, <2>1, <3>4 DEF RollbackRecord
        <4>2. ApplyRollback(m, r) = Mode("failed", n, 0)
          BY <1>2, <2>1, <3>4 DEF ApplyRollback
        <4>3. IsFailedAt(RollbackRecord(q, r), n)
          BY <1>1, <3>1, <4>1 DEF IsFailedAt
        <4> QED BY <1>1, <4>2, <4>3 DEF StandsFor, m
      <3> QED BY <1>8, <3>2, <3>3, <3>4
    <2>2. CASE ~(k = 1 /\ r.step = n - 1)
      <3>1. RollbackRecord(q, r) = Failed
        BY <1>6, <1>8, <2>2 DEF RollbackRecord
      <3>2. ApplyRollback(m, r) = Rejected
        BY <1>2, <1>8, <2>2 DEF ApplyRollback
      <3> QED BY <3>1, <3>2 DEF StandsFor, m
    <2> QED BY <2>1, <2>2
  <1>9. CASE r.type = "TransactionRolledBack"
    <2>1. CASE k = 0 /\ n = 0
      <3>1. RollbackRecord(q, r) = RolledBack
        BY <1>5, <1>6, <1>9, <2>1 DEF RollbackRecord
      <3>2. ApplyRollback(m, r) = Mode("rolledback", 0, 0)
        BY <1>2, <1>9, <2>1 DEF ApplyRollback
      <3> QED BY <3>1, <3>2 DEF StandsFor, m
    <2>2. CASE ~(k = 0 /\ n = 0)
      <3>1. RollbackRecord(q, r) = Failed
        BY <1>5, <1>6, <1>9, <2>2 DEF RollbackRecord
      <3>2. ApplyRollback(m, r) = Rejected
        BY <1>2, <1>9, <2>2 DEF ApplyRollback
      <3> QED BY <3>1, <3>2 DEF StandsFor, m
    <2> QED BY <2>1, <2>2
  <1>10. CASE r.type \notin {"RollbackStepPrepared", "RollbackStepCompleted",
                             "RollbackStepNotApplied", "RollbackStepFailed",
                             "TransactionRolledBack"}
    <2>1. RollbackRecord(q, r) = Failed
      BY <1>10 DEF RollbackRecord
    <2>2. ApplyRollback(m, r) = Rejected
      BY <1>10 DEF ApplyRollback
    <2> QED BY <2>1, <2>2 DEF StandsFor, m
  <1> QED BY <1>7, <1>8, <1>9, <1>10

\* What Compact reads off a mode
CompactOf(q) ==
  CASE q.kind = "Unread" -> NoJournal
    [] q.kind = "Forward" -> Mode("forward", q.next_step, Len(q.prepared_steps))
    [] q.kind = "Rollback"
         -> Mode("rollback", Len(q.remaining_steps), IF q.prepared_step = NoStep THEN 0 ELSE 1)
    [] q.kind = "RecoveryRequired" -> Mode("failed", Len(q.remaining_steps), 0)
    [] q.kind = "Completed"  -> Mode("completed", StepCount, 0)
    [] q.kind = "RolledBack" -> Mode("rolledback", 0, 0)
    [] OTHER -> Rejected

LEMMA OneCompactState ==
  ASSUME NEW q, NEW c, StandsFor(q, c)
  PROVE  CompactOf(q) = c
  <1>1. ASSUME NEW n \in Nat, NEW k \in Nat, IsForward(q, n, k), c = Mode("forward", n, k)
        PROVE  CompactOf(q) = c
    <2>1. q.kind = "Forward" /\ q.next_step = n /\ Len(q.prepared_steps) = k
      BY <1>1, ForwardParts, BatchIsARange
    <2> QED BY <1>1, <2>1 DEF CompactOf
  <1>2. ASSUME NEW n \in Nat, NEW k \in Nat, IsRollback(q, n, k), c = Mode("rollback", n, k)
        PROVE  CompactOf(q) = c
    <2>1. /\ q.kind = "Rollback" /\ q.remaining_steps = Backwards(n) /\ k \in {0, 1}
          /\ q.prepared_step = IF k = 0 THEN NoStep ELSE n - 1
      BY <1>2 DEF IsRollback, Rollback
    <2>2. q.prepared_step = NoStep <=> k = 0
      BY <1>2, <2>1 DEF NoStep, IsRollback
    <2>3. Len(q.remaining_steps) = n
      BY <2>1, BackwardsIsARange
    <2> QED BY <1>2, <2>1, <2>2, <2>3 DEF CompactOf
  <1>3. ASSUME NEW n \in Nat, IsFailedAt(q, n), c = Mode("failed", n, 0)
        PROVE  CompactOf(q) = c
    <2>1. q.kind = "RecoveryRequired" /\ q.remaining_steps = Backwards(n)
      BY <1>3 DEF IsFailedAt, RecoveryRequiredAt
    <2>2. Len(q.remaining_steps) = n
      BY <2>1, BackwardsIsARange
    <2> QED BY <1>3, <2>1, <2>2 DEF CompactOf
  <1>4. ASSUME q = Unread, c = NoJournal
        PROVE  CompactOf(q) = c
    BY <1>4 DEF CompactOf, Unread
  <1>5. ASSUME q = Completed, c = Mode("completed", StepCount, 0)
        PROVE  CompactOf(q) = c
    BY <1>5 DEF CompactOf, Completed
  <1>6. ASSUME q = RolledBack, c = Mode("rolledback", 0, 0)
        PROVE  CompactOf(q) = c
    BY <1>6 DEF CompactOf, RolledBack
  <1>7. ASSUME q = Failed, c = Rejected
        PROVE  CompactOf(q) = c
    BY <1>7 DEF CompactOf, Failed
  <1> QED BY <1>1, <1>2, <1>3, <1>4, <1>5, <1>6, <1>7 DEF StandsFor

-----------------------------------------------------------------------------
(***************************************************************************)
(* The inductive invariant.                                                *)
(***************************************************************************)
ModeStands == StandsFor(mode, Compact)

IInv == ModeStands /\ TypeOK /\ RecordedLocationsMatchReplay

LEMMA CompactIsOfTheMode == Compact = CompactOf(mode) /\ Compact' = CompactOf(mode')
  BY DEF Compact, CompactOf

\* Whatever record is read, the mode stands for what ApplyRecord says.
LEMMA ModeFollows ==
  ASSUME ModeStands, NEW r \in Records, mode.kind # "Error"
  PROVE  StandsFor(NextMode(r), ApplyRecord(Compact, r))
  <1>1. CASE mode = Unread /\ Compact = NoJournal
    <2>1. mode.kind = "Unread" /\ Compact.phase = "none"
      BY <1>1 DEF Unread, NoJournal, Mode
    <2>2. CASE r.type = "TransactionStarted"
      <3>1. NextMode(r) = Forward(0, << >>, << >>) /\ ApplyRecord(Compact, r) = Mode("forward", 0, 0)
        BY <2>1, <2>2 DEF NextMode, ApplyRecord
      <3>2. BatchSteps(0, 0) = << >>
        BY EmptyBatch
      <3>3. IsForward(NextMode(r), 0, 0)
        BY NAssumption, <3>1, <3>2 DEF IsForward, StepCount
      <3> QED BY <3>1, <3>3 DEF StandsFor
    <2>3. CASE r.type # "TransactionStarted"
      <3>1. NextMode(r) = Failed /\ ApplyRecord(Compact, r) = Rejected
        BY <2>1, <2>3 DEF NextMode, ApplyRecord
      <3> QED BY <3>1 DEF StandsFor
    <2> QED BY <2>2, <2>3
  <1>2. ASSUME NEW n \in Nat, NEW k \in Nat, IsForward(mode, n, k), Compact = Mode("forward", n, k)
        PROVE  StandsFor(NextMode(r), ApplyRecord(Compact, r))
    <2>1. mode.kind = "Forward" /\ Compact.phase = "forward"
      BY <1>2 DEF IsForward, Forward, Mode
    <2>2. NextMode(r) = ForwardRecord(mode, r) /\ ApplyRecord(Compact, r) = ApplyForward(Compact, r)
      BY <2>1 DEF NextMode, ApplyRecord
    <2> QED BY <1>2, <2>2, ForwardAgrees
  <1>3. ASSUME NEW n \in Nat, NEW k \in Nat, IsRollback(mode, n, k), Compact = Mode("rollback", n, k)
        PROVE  StandsFor(NextMode(r), ApplyRecord(Compact, r))
    <2>1. mode.kind = "Rollback" /\ Compact.phase = "rollback"
      BY <1>3 DEF IsRollback, Rollback, Mode
    <2>2. NextMode(r) = RollbackRecord(mode, r) /\ ApplyRecord(Compact, r) = ApplyRollback(Compact, r)
      BY <2>1 DEF NextMode, ApplyRecord
    <2> QED BY <1>3, <2>2, RollbackAgrees
  <1>4. ASSUME NEW n \in Nat, IsFailedAt(mode, n), Compact = Mode("failed", n, 0)
        PROVE  StandsFor(NextMode(r), ApplyRecord(Compact, r))
    <2>1. /\ mode.kind = "RecoveryRequired" /\ mode.failed_step = n - 1
          /\ mode.remaining_steps = Backwards(n)
          /\ Compact.phase = "failed" /\ Compact.next = n /\ n \in 1..StepCount
      BY <1>4 DEF IsFailedAt, RecoveryRequiredAt, Mode
    <2>2. NextMode(r) = RecoveryRecord(mode, r)
      BY <2>1 DEF NextMode
    <2>3. CASE r.type = "RollbackRecoveryStarted" /\ r.step = n - 1
      <3>1. NextMode(r) = Rollback(Backwards(n), NoStep)
        BY <2>1, <2>2, <2>3 DEF RecoveryRecord
      <3>2. ApplyRecord(Compact, r) = Mode("rollback", n, 0)
        BY <2>1, <2>3 DEF ApplyRecord
      <3>3. IsRollback(NextMode(r), n, 0)
        BY NAssumption, <2>1, <3>1 DEF IsRollback, StepCount
      <3> QED BY <3>2, <3>3 DEF StandsFor
    <2>4. CASE ~(r.type = "RollbackRecoveryStarted" /\ r.step = n - 1)
      <3>1. NextMode(r) = Failed
        BY <2>1, <2>2, <2>4 DEF RecoveryRecord
      <3>2. ApplyRecord(Compact, r) = Rejected
        BY <2>1, <2>4 DEF ApplyRecord
      <3> QED BY <3>1, <3>2 DEF StandsFor
    <2> QED BY <2>3, <2>4
  <1>5. CASE \/ mode = Completed /\ Compact = Mode("completed", StepCount, 0)
             \/ mode = RolledBack /\ Compact = Mode("rolledback", 0, 0)
    <2>1. mode.kind \in {"Completed", "RolledBack"} /\ Compact.phase \in {"completed", "rolledback"}
      BY <1>5 DEF Completed, RolledBack, Mode
    <2>2. NextMode(r) = Failed /\ ApplyRecord(Compact, r) = Rejected
      BY <2>1 DEF NextMode, ApplyRecord
    <2> QED BY <2>2 DEF StandsFor
  <1>6. mode # Failed
    BY DEF Failed
  <1> QED BY <1>1, <1>2, <1>3, <1>4, <1>5, <1>6 DEF ModeStands, StandsFor

LEMMA AcceptedStandsForAccepted ==
  ASSUME NEW q, NEW c, StandsFor(q, c)
  PROVE  q.kind = "Error" <=> c.phase = "rejected"
  BY DEF StandsFor, IsForward, IsRollback, IsFailedAt, Unread, Completed, RolledBack, Failed,
         Forward, Rollback, RecoveryRequiredAt, Mode, NoJournal, Rejected

LEMMA CompactIsAMode ==
  ASSUME NEW q, NEW c, StandsFor(q, c)
  PROVE  c \in Modes
  <1> SUFFICES ASSUME NEW p, NEW n, NEW k, c = Mode(p, n, k),
                      p \in Phases /\ n \in 0..StepCount /\ k \in 0..StepCount,
                      n + k <= StepCount \/ p = "rollback",
                      p # "forward" => k <= (IF p = "rollback" THEN 1 ELSE 0),
                      p = "rollback" => k <= n, p = "failed" => n > 0,
                      p = "completed" => n = StepCount,
                      p \in {"none", "rolledback", "rejected"} => n = 0
               PROVE  c \in Modes
    <2>1. StepCount \in Nat
      BY NAssumption DEF StepCount
    <2>2. StepCount >= 1
      BY NAssumption DEF StepCount
    <2> QED BY <2>1, <2>2 DEF StandsFor, IsForward, IsRollback, IsFailedAt, NoJournal, Rejected, Phases
  <1> QED BY DEF Modes, Mode

\* One more step of the schedule moves its source and no other.
LEMMA StepMovesOneSource ==
  ASSUME NEW i \in Steps, NEW s \in Sources
  PROVE  /\ s = SourceOf(i) =>
              LocationAt(s, i) = LocationBefore(i) /\ LocationAt(s, i + 1) = LocationAfter(i)
         /\ s # SourceOf(i) => LocationAt(s, i + 1) = LocationAt(s, i)
  BY NAssumption DEF Steps, StepCount, Sources, SourceOf, LocationAt, LocationBefore, LocationAfter

\* Only completions count, and only the next step of the direction completes.
LEMMA OnlyCompletionsCount ==
  ASSUME NEW m \in Modes, NEW r \in Records, ApplyRecord(m, r).phase # "rejected"
  PROVE  LET n == ApplyRecord(m, r).next IN
         /\ r.type = "ForwardStepCompleted" => r.step = m.next /\ n = m.next + 1
         /\ r.type = "RollbackStepCompleted" => r.step = n /\ m.next = n + 1
         /\ r.type \notin {"ForwardStepCompleted", "RollbackStepCompleted"} => n = m.next
  <1>1. m.next \in Nat /\ m.prepared \in Nat /\ (m.phase = "none" => m.next = 0)
    BY NAssumption DEF Modes, StepCount
  <1>2. r.step \in Nat
    BY RecordsHaveSteps
  <1>3. CASE m.phase = "forward"
    <2>1. ApplyRecord(m, r) = ApplyForward(m, r)
      BY <1>3 DEF ApplyRecord
    <2> QED BY <1>1, <2>1 DEF ApplyForward, Mode, Rejected
  <1>4. CASE m.phase = "rollback"
    <2>1. ApplyRecord(m, r) = ApplyRollback(m, r)
      BY <1>4 DEF ApplyRecord
    <2> QED BY <1>1, <1>2, <2>1 DEF ApplyRollback, Mode, Rejected
  <1>5. CASE m.phase \notin {"forward", "rollback"}
    BY <1>1, <1>5 DEF ApplyRecord, Mode, Rejected
  <1> QED BY <1>3, <1>4, <1>5

LEMMA ReadKeeps ==
  ASSUME IInv, NEW r \in Records, ReadRecord(r)
  PROVE  IInv' /\ Compact' = ApplyRecord(Compact, r)
  <1>1. mode.kind # "Error" /\ mode' = NextMode(r) /\ last' = r
    BY DEF ReadRecord
  <1>2. StandsFor(mode', ApplyRecord(Compact, r))
    BY <1>1, ModeFollows DEF IInv
  <1>3. Compact' = ApplyRecord(Compact, r)
    BY <1>2, OneCompactState, CompactIsOfTheMode
  <1>4. ModeStands'
    BY <1>2, <1>3 DEF ModeStands
  <1>5. Compact \in Modes /\ Compact' \in Modes
    BY <1>2, <1>3, CompactIsAMode DEF IInv, ModeStands
  <1>6. location \in [Sources -> Locations]
    BY DEF IInv, TypeOK
  <1>7. location' \in [Sources -> Locations] /\ RecordedLocationsMatchReplay'
    <2>1. CASE mode'.kind = "Error"
      BY <1>6, <2>1 DEF ReadRecord, RecordedLocationsMatchReplay
    <2>2. CASE mode'.kind # "Error"
      <3> DEFINE n == Compact.next
                 j == Compact'.next
      <3>1. location' = RecordedLocation(r)
        BY <2>2 DEF ReadRecord
      <3>2. \A s \in Sources : location[s] = LocationAt(s, n)
        BY <1>1 DEF IInv, RecordedLocationsMatchReplay
      <3>3. Compact'.phase # "rejected"
        BY <1>4, <2>2, AcceptedStandsForAccepted DEF ModeStands
      <3>4. /\ r.type = "ForwardStepCompleted" => r.step = n /\ j = n + 1
            /\ r.type = "RollbackStepCompleted" => r.step = j /\ n = j + 1
            /\ r.type \notin {"ForwardStepCompleted", "RollbackStepCompleted"} => j = n
        BY <1>3, <1>5, <3>3, OnlyCompletionsCount
      <3>5. n \in 0..StepCount /\ j \in 0..StepCount
        BY <1>5 DEF Modes
      <3> HIDE DEF n, j
      <3>6. location' \in [Sources -> Locations] /\ \A s \in Sources : location'[s] = LocationAt(s, j)
        <4>1. CASE r.type = "ForwardStepCompleted"
          <5>1. n \in Steps /\ r.step = n /\ j = n + 1
            BY NAssumption, <3>4, <3>5, <4>1 DEF Steps, StepCount
          <5>2. location' = [location EXCEPT ![SourceOf(n)] = LocationAfter(n)]
            BY <3>1, <4>1, <5>1 DEF RecordedLocation
          <5>3. \A s \in Sources : location'[s] = LocationAt(s, n + 1)
            BY <1>6, <3>2, <5>1, <5>2, StepMovesOneSource
          <5>4. LocationAfter(n) \in Locations
            BY DEF LocationAfter, Locations
          <5> QED BY <1>6, <5>1, <5>2, <5>3, <5>4
        <4>2. CASE r.type = "RollbackStepCompleted"
          <5>1. j \in Steps /\ r.step = j /\ n = j + 1
            BY NAssumption, <3>4, <3>5, <4>2 DEF Steps, StepCount
          <5>2. location' = [location EXCEPT ![SourceOf(j)] = LocationBefore(j)]
            BY <3>1, <4>2, <5>1 DEF RecordedLocation
          <5>3. \A s \in Sources : location'[s] = LocationAt(s, j)
            BY <1>6, <3>2, <5>1, <5>2, StepMovesOneSource
          <5>4. LocationBefore(j) \in Locations
            BY DEF LocationBefore, Locations
          <5> QED BY <1>6, <5>2, <5>3, <5>4
        <4>3. CASE r.type \notin {"ForwardStepCompleted", "RollbackStepCompleted"}
          <5>1. location' = location /\ j = n
            BY <3>1, <3>4, <4>3 DEF RecordedLocation
          <5> QED BY <1>6, <3>2, <5>1
        <4> QED BY <4>1, <4>2, <4>3
      <3> QED BY <3>6 DEF RecordedLocationsMatchReplay, j
    <2> QED BY <2>1, <2>2
  <1>8. TypeOK'
    BY <1>1, <1>5, <1>7 DEF TypeOK
  <1> QED BY <1>3, <1>4, <1>7, <1>8 DEF IInv

LEMMA InitEstablishes == Init => IInv
  <1> SUFFICES ASSUME Init PROVE IInv
    OBVIOUS
  <1>1. mode = Unread /\ location = [s \in Sources |-> "original"]
        /\ last = Rec("TransactionCompleted", 0, 0)
    BY DEF Init
  <1>2. StandsFor(mode, NoJournal)
    BY <1>1 DEF StandsFor
  <1>3. Compact = NoJournal
    BY <1>2, OneCompactState, CompactIsOfTheMode
  <1>4. ModeStands /\ Compact \in Modes
    BY <1>2, <1>3, CompactIsAMode DEF ModeStands
  <1>5. last \in Records
    BY <1>1 DEF Records
  <1>6. \A s \in Sources : location[s] = LocationAt(s, Compact.next)
    <2>1. Compact.next = 0
      BY <1>3 DEF NoJournal, Mode
    <2> QED BY NAssumption, <1>1, <2>1 DEF LocationAt, Sources
  <1>7. location \in [Sources -> Locations]
    BY <1>1 DEF Locations
  <1> QED BY <1>4, <1>5, <1>6, <1>7 DEF IInv, TypeOK, RecordedLocationsMatchReplay

LEMMA StutterKeeps == ASSUME IInv, UNCHANGED vars PROVE IInv' /\ UNCHANGED Compact
  <1>1. mode' = mode /\ location' = location /\ last' = last
    BY DEF vars
  <1>2. Compact' = Compact
    BY <1>1 DEF Compact
  <1> QED BY <1>1, <1>2 DEF IInv, ModeStands, TypeOK, RecordedLocationsMatchReplay

LEMMA NextKeeps == IInv /\ [Next]_vars => IInv'
  BY ReadKeeps, StutterKeeps DEF Next

-----------------------------------------------------------------------------
\* The inductive invariant: the mode stands for its counters, and the
\* locations are those of the counted steps.
THEOREM Invariant == Spec => []IInv
  <1>1. Init => IInv
    BY InitEstablishes
  <1> QED BY <1>1, NextKeeps, PTL DEF Spec

\* The counters stay in range for every sequence of records.
THEOREM TypeCorrect == Spec => []TypeOK
  <1>1. IInv => TypeOK
    BY DEF IInv
  <1> QED BY <1>1, Invariant, PTL

LEMMA StepsOfAStandIn == ModeStands => StepsAreAPrefix
  <1> SUFFICES ASSUME ModeStands PROVE StepsAreAPrefix
    OBVIOUS
  <1>1. ASSUME NEW n \in Nat, NEW k \in Nat, IsForward(mode, n, k)
        PROVE  StepsAreAPrefix
    <2>1. /\ mode.kind = "Forward" /\ mode.next_step = n
          /\ mode.completed_steps = BatchSteps(0, n) /\ mode.prepared_steps = BatchSteps(n, k)
      BY <1>1, ForwardParts
    <2>2. Len(mode.prepared_steps) = k
      BY <2>1, BatchIsARange
    <2> QED BY <2>1, <2>2 DEF StepsAreAPrefix
  <1>2. ASSUME NEW n \in Nat, NEW k \in Nat, IsRollback(mode, n, k)
        PROVE  StepsAreAPrefix
    <2>1. /\ mode.kind = "Rollback" /\ mode.remaining_steps = Backwards(n)
          /\ mode.prepared_step \in {NoStep, n - 1}
      BY <1>2 DEF IsRollback, Rollback
    <2>2. Len(mode.remaining_steps) = n /\ FrontOf(mode.remaining_steps) = n - 1
      BY <2>1, BackwardsIsARange, FrontOfBackwards
    <2> QED BY <2>1, <2>2 DEF StepsAreAPrefix, Backwards
  <1>3. ASSUME NEW n \in Nat, IsFailedAt(mode, n)
        PROVE  StepsAreAPrefix
    <2>1. /\ mode.kind = "RecoveryRequired" /\ mode.remaining_steps = Backwards(n)
          /\ mode.failed_step = n - 1
      BY <1>3 DEF IsFailedAt, RecoveryRequiredAt
    <2>2. Len(mode.remaining_steps) = n /\ FrontOf(mode.remaining_steps) = n - 1
      BY <2>1, BackwardsIsARange, FrontOfBackwards
    <2> QED BY <2>1, <2>2 DEF StepsAreAPrefix, Backwards
  <1>4. CASE mode \in {Unread, Completed, RolledBack, Failed}
    BY <1>4 DEF StepsAreAPrefix, Unread, Completed, RolledBack, Failed
  <1> QED BY <1>1, <1>2, <1>3, <1>4 DEF ModeStands, StandsFor

\* The completed steps are a prefix of the schedule, the remaining ones that
\* prefix backwards, the prepared ones what follows (execution.rs:
\* replay_journal, apply_forward_record, apply_rollback_record).
THEOREM StepsStayAPrefix == Spec => []StepsAreAPrefix
  <1>1. IInv => StepsAreAPrefix
    BY StepsOfAStandIn DEF IInv
  <1> QED BY <1>1, Invariant, PTL

\* The two folds over one journal agree on where every source is
\* (recovery.rs: validate_recorded_state).
THEOREM LocationsMatch == Spec => []RecordedLocationsMatchReplay
  <1>1. IInv => RecordedLocationsMatchReplay
    BY DEF IInv
  <1> QED BY <1>1, Invariant, PTL

\* replay_journal is the fold of ApplyRecord: the counters of
\* ExecutionProtocol, which the other modules use for it, lose nothing.
THEOREM CountersSuffice == Spec => ReplayIsCompact
  <1>1. IInv /\ [Next]_vars => [Compact' = ApplyRecord(Compact, last')]_vars
    <2>1. ASSUME IInv, NEW r \in Records, ReadRecord(r)
          PROVE  Compact' = ApplyRecord(Compact, last')
      BY <2>1, ReadKeeps DEF ReadRecord
    <2> QED BY <2>1 DEF Next
  <1> QED BY <1>1, Invariant, PTL DEF Spec, ReplayIsCompact

================================================================================
