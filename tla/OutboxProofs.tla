---------------------------- MODULE OutboxProofs ----------------------------
(* Proofs about Outbox, for every set of notifications, users, devices and *)
(* senders, every budget, batch size and backoff.                          *)
EXTENDS OutboxPushes, FiniteSetTheorems, TLAPS

LEMMA OlderType == ASSUME NEW a \in Ages \union {Never}
                   PROVE  /\ Older(a) \in Ages \union {Never}
                          /\ a \in Ages => Older(a) \in Ages
                          /\ Older(a) >= a /\ Older(Never) = Never
                          /\ a \in Int /\ Older(a) \in Int
  BY BoundsAssumption DEF Ages, Never, Older

LEMMA VerdictType == ASSUME NEW s \in Senders, NEW n \in Notes
                     PROVE  Verdict(s, n) \in {"sent", "failed", "permanent_failure"}
  BY DEF Verdict

-----------------------------------------------------------------------------
(* Type correctness. *)

LEMMA TypeInit == Init => TypeOK
  BY BoundsAssumption DEF Init, TypeOK, Statuses, Outcomes, Ages, Never, NoResult

LEMMA ReleaseType == ASSUME NEW s \in Senders, TypeOK, Release(s)
                     PROVE  /\ pc' \in [Senders -> {"idle", "batch", "push"}]
                            /\ batch' \in [Senders -> SUBSET Notes]
                            /\ cur' \in [Senders -> Notes \union {NoNote}]
                            /\ \A t \in Senders : pc'[t] = "push" <=> cur'[t] # NoNote
                            /\ pending' \in [Senders -> SUBSET TokenRow]
                            /\ accepted' \in [Senders -> BOOLEAN]
                            /\ refused' \in [Senders -> BOOLEAN]
                            /\ result' \in [Senders -> [Notes -> Outcomes \union {"none"}]]
                            /\ invalid' \in [Senders -> SUBSET Nat]
                            /\ elapsed' \in [Senders -> Ages]
  BY BoundsAssumption DEF TypeOK, Release, NoResult, Ages

LEMMA InsertType == ASSUME TypeOK, NEW N \in SUBSET Notes,
                           NEW st \in Statuses, Insert(N, st)
                    PROVE  TypeOK'
  BY DEF TypeOK, Insert, registry, trans, work

LEMMA ResultType ==
    ASSUME TypeOK, NEW s \in Senders, NEW n \in Notes, NEW o \in Outcomes
    PROVE  [result EXCEPT ![s][n] = o] \in [Senders -> [Notes -> Outcomes \union {"none"}]]
<1>1. [result[s] EXCEPT ![n] = o] \in [Notes -> Outcomes \union {"none"}]
  BY DEF TypeOK
<1> QED  BY <1>1 DEF TypeOK

LEMMA TypeStep == TypeOK /\ [Next]_vars => TypeOK'
<1> SUFFICES ASSUME TypeOK, [Next]_vars PROVE TypeOK'
  OBVIOUS
<1>1. CASE Enqueue
  BY <1>1, InsertType DEF Enqueue, Statuses
<1>2. CASE \E n \in Notes : CreateNotification(n)
  BY <1>2, InsertType, NotesAssumption DEF CreateNotification
<1>3. CASE Tick
  BY <1>3, OlderType DEF Tick, TypeOK, inserts, registry, work
<1>4. ASSUME NEW u \in Users, NEW d \in Devices, RegisterToken(u, d) PROVE TypeOK'
  BY <1>4 DEF RegisterToken, TypeOK, TokenRow, rows, inserts, trans, work
<1>5. ASSUME NEW r \in tokens, DeleteToken(r) PROVE TypeOK'
  BY <1>5 DEF DeleteToken, TypeOK, rows, inserts, trans, work
<1>6. ASSUME NEW s \in Senders, Select(s) PROVE TypeOK'
  BY <1>6 DEF Select, TypeOK, rows, inserts, registry, work
<1>7. ASSUME NEW s \in Senders, NEW n \in Notes, LoadTokens(s, n) PROVE TypeOK'
  <2>1. CASE TokensOf(n) = {}
    <3>1. result' \in [Senders -> [Notes -> Outcomes \union {"none"}]]
      <4>1. result' = [result EXCEPT ![s][n] = "skipped"]
        BY <1>7, <2>1 DEF LoadTokens
      <4>2. "skipped" \in Outcomes
        BY DEF Outcomes
      <4> QED  BY <4>1, <4>2, ResultType
    <3> QED  BY <1>7, <2>1, <3>1 DEF LoadTokens, TypeOK, rows, inserts, registry, work
  <2>2. CASE TokensOf(n) # {}
    <3>1. /\ pc' = [pc EXCEPT ![s] = "push"]
          /\ cur' = [cur EXCEPT ![s] = n]
          /\ pending' = [pending EXCEPT ![s] = TokensOf(n)]
          /\ UNCHANGED <<accepted, refused, result, rows, inserts, registry,
                         batch, invalid, elapsed, faults>>
      BY <1>7, <2>2 DEF LoadTokens
    <3>2. TokensOf(n) \in SUBSET TokenRow
      BY DEF TypeOK, TokensOf
    <3>3. pending' \in [Senders -> SUBSET TokenRow]
      BY <3>1, <3>2 DEF TypeOK
    <3>4. /\ pc' \in [Senders -> {"idle", "batch", "push"}]
          /\ cur' \in [Senders -> Notes \union {NoNote}]
          /\ \A t \in Senders : pc'[t] = "push" <=> cur'[t] # NoNote
      BY <3>1, NotesAssumption DEF TypeOK
    <3> QED  BY <3>1, <3>3, <3>4 DEF TypeOK, rows, inserts, registry
  <2> QED  BY <2>1, <2>2
<1>8. ASSUME NEW s \in Senders, NEW r \in pending[s], PushAccepted(s, r) PROVE TypeOK'
  BY <1>8 DEF PushAccepted, TypeOK, rows, inserts, registry
<1>9. ASSUME NEW s \in Senders, NEW r \in pending[s], PushRefused(s, r) PROVE TypeOK'
  <2>1. r.id \in Nat
    BY DEF TypeOK, TokenRow
  <2>2. invalid' \in [Senders -> SUBSET Nat]
    BY <1>9, <2>1 DEF PushRefused, TypeOK
  <2> QED  BY <1>9, <2>2 DEF PushRefused, TypeOK, rows, inserts, registry
<1>10. ASSUME NEW s \in Senders, Settle(s) PROVE TypeOK'
  <2>1. cur[s] \in Notes
    BY <1>10 DEF Settle, TypeOK
  <2>2. result' \in [Senders -> [Notes -> Outcomes \union {"none"}]]
    BY <1>10, <2>1, VerdictType, ResultType DEF Settle, Outcomes
  <2> QED  BY <1>10, <2>2 DEF Settle, TypeOK, rows, inserts, registry
<1>11. ASSUME NEW s \in Senders, Commit(s) PROVE TypeOK'
  <2>1. deliveryStatus' \in [Notes -> Statuses]
    BY <1>11 DEF Commit, TypeOK, Todo, Statuses
  <2>2. /\ attempts' \in [Notes -> Nat]
        /\ lastAttempt' \in [Notes -> Ages \union {Never}]
        /\ tokens' \subseteq TokenRow
    BY <1>11 DEF Commit, TypeOK
  <2> QED  BY <1>11, <2>1, <2>2, ReleaseType DEF Commit, TypeOK, inserts
<1>12. ASSUME NEW s \in Senders, PushRaises(s) \/ Crash(s) PROVE TypeOK'
  <2>1. Release(s) /\ faults' \in Nat /\ UNCHANGED <<rows, inserts, registry>>
    BY <1>12 DEF PushRaises, Crash, TypeOK
  <2> QED  BY <2>1, ReleaseType DEF TypeOK, rows, inserts, registry
<1>13. CASE UNCHANGED vars
  BY <1>13 DEF vars, TypeOK, rows, inserts, registry, work, trans
<1> QED
  BY <1>1, <1>2, <1>3, <1>4, <1>5, <1>6, <1>7, <1>8, <1>9, <1>10, <1>11, <1>12, <1>13
     DEF Next, SenderStep

(* Every variable keeps its type, whatever the constants. *)
THEOREM TypeCorrect == Spec => []TypeOK
  BY TypeInit, TypeStep, PTL DEF Spec

-----------------------------------------------------------------------------
(* The inductive invariant.  A row locked by a batch cannot be touched by  *)
(* anyone else, so what made it eligible still holds at the commit; that   *)
(* is what keeps the outcomes a batch holds in memory within its budget.   *)

Unattempted == \A n \in Notes : deliveryStatus[n] \in {"absent", "queued"} =>
                   attempts[n] = 0 /\ lastAttempt[n] = Never

OutcomeFits(s, n) ==
    /\ result[s][n] = "failed" => attempts[n] + 1 < MaxAttempts[s]
    /\ result[s][n] = "permanent_failure" => attempts[n] + 1 >= MaxAttempts[s]

OutcomesFit == \A s \in Senders : \A n \in batch[s] : OutcomeFits(s, n)

SendsOwnBatch == \A s \in Senders : pc[s] = "push" => cur[s] \in batch[s]

IInv == /\ TypeOK
        /\ ExclusiveProcessing
        /\ AttemptsWithinBudget
        /\ Unattempted
        /\ HoldsOnlyBatch
        /\ StillEligible
        /\ OutcomesFit
        /\ SendsOwnBatch

LEMMA InvInit == Init => IInv
  BY TypeInit DEF Init, IInv, ExclusiveProcessing, AttemptsWithinBudget, Unattempted,
                  HoldsOnlyBatch, StillEligible, OutcomesFit, SendsOwnBatch, NoResult

(* A step that leaves the rows alone and changes no batch keeps everything *)
(* but the outcomes, the record being sent and the types.                  *)
LEMMA RowsUntouched ==
    ASSUME IInv, UNCHANGED <<rows, batch>>
    PROVE  ExclusiveProcessing' /\ AttemptsWithinBudget' /\ Unattempted' /\ StillEligible'
  BY DEF IInv, rows, ExclusiveProcessing, AttemptsWithinBudget, Unattempted,
         StillEligible, Due

LEMMA InsertInv ==
    ASSUME IInv, NEW N \in SUBSET (Notes \ Present), NEW st \in Statuses \ {"absent"},
           Insert(N, st), TypeOK'
    PROVE  IInv'
<1>1. \A n \in N : deliveryStatus[n] = "absent" /\ attempts[n] = 0 /\ lastAttempt[n] = Never
  BY DEF IInv, Unattempted, Present
<1>2. /\ UNCHANGED <<attempts, lastAttempt, pc, batch, cur, result>>
      /\ \A n \in Notes : deliveryStatus'[n] = IF n \in N THEN st ELSE deliveryStatus[n]
  BY DEF Insert, registry, trans, work
<1>3. \A s \in Senders : \A n \in batch[s] : n \notin N /\ n \in Notes
  BY <1>1 DEF IInv, StillEligible, TypeOK
<1>4. Unattempted'
  BY <1>1, <1>2 DEF IInv, Unattempted
<1>5. AttemptsWithinBudget'
  <2> SUFFICES ASSUME NEW n \in Notes
               PROVE  /\ deliveryStatus'[n] \in {"absent", "queued"} => attempts[n] = 0
                      /\ attempts[n] > 0 =>
                           \E s \in Senders : IF deliveryStatus'[n] = "failed"
                                              THEN attempts[n] < MaxAttempts[s]
                                              ELSE attempts[n] <= MaxAttempts[s]
    BY <1>2 DEF AttemptsWithinBudget
  <2>1. CASE n \in N
    BY <2>1, <1>1
  <2>2. CASE n \notin N
    BY <2>2, <1>2 DEF IInv, AttemptsWithinBudget
  <2> QED  BY <2>1, <2>2
<1>6. StillEligible'
  BY <1>2, <1>3 DEF IInv, StillEligible, Due
<1>7. ExclusiveProcessing' /\ HoldsOnlyBatch' /\ OutcomesFit' /\ SendsOwnBatch'
  BY <1>2 DEF IInv, ExclusiveProcessing, HoldsOnlyBatch, OutcomesFit, OutcomeFits,
              SendsOwnBatch
<1> QED  BY <1>4, <1>6, <1>7, <1>5 DEF IInv

LEMMA ReleaseInv ==
    ASSUME IInv, NEW s \in Senders, Release(s), UNCHANGED rows, TypeOK'
    PROVE  IInv'
<1>1. /\ batch'[s] = {} /\ pc'[s] = "idle"
      /\ \A t \in Senders \ {s} : /\ batch'[t] = batch[t] /\ pc'[t] = pc[t]
                                  /\ cur'[t] = cur[t] /\ result'[t] = result[t]
  BY DEF Release, IInv, TypeOK
<1>2. ExclusiveProcessing' /\ SendsOwnBatch'
  BY <1>1 DEF IInv, ExclusiveProcessing, SendsOwnBatch
<1>3. HoldsOnlyBatch'
  BY <1>1 DEF IInv, TypeOK, HoldsOnlyBatch, Release, NoResult
<1>4. AttemptsWithinBudget' /\ Unattempted'
  BY DEF IInv, rows, AttemptsWithinBudget, Unattempted
<1>5. StillEligible' /\ OutcomesFit'
  BY <1>1 DEF IInv, rows, StillEligible, Due, OutcomesFit, OutcomeFits
<1> QED  BY <1>2, <1>4, <1>5, <1>3 DEF IInv

LEMMA SelectInv == ASSUME IInv, NEW s \in Senders, Select(s), TypeOK' PROVE IInv'
<1>1. PICK B \in SUBSET Notes :
        /\ B # {} /\ B \subseteq {n \in Notes : Eligible(s, n)} \ Locked
        /\ batch' = [batch EXCEPT ![s] = B]
  BY DEF Select, OldestOf
<1>2. /\ UNCHANGED <<rows, result, cur>> /\ pc' = [pc EXCEPT ![s] = "batch"]
      /\ pc[s] = "idle"
  BY DEF Select, work
<1>3. ExclusiveProcessing'
  BY <1>1 DEF IInv, TypeOK, ExclusiveProcessing, Locked
<1>4. AttemptsWithinBudget' /\ Unattempted'
  BY <1>2 DEF IInv, rows, AttemptsWithinBudget, Unattempted
<1>5. StillEligible'
  BY <1>1, <1>2 DEF IInv, TypeOK, rows, StillEligible, Eligible, Due
<1>6. HoldsOnlyBatch'
  BY <1>1, <1>2 DEF IInv, TypeOK, HoldsOnlyBatch
<1>7. OutcomesFit'
  BY <1>1, <1>2 DEF IInv, TypeOK, rows, HoldsOnlyBatch, OutcomesFit, OutcomeFits
<1>8. SendsOwnBatch'
  BY <1>1, <1>2 DEF IInv, TypeOK, SendsOwnBatch
<1> QED  BY <1>3, <1>4, <1>5, <1>6, <1>8, <1>7 DEF IInv

LEMMA TickInv == ASSUME IInv, Tick, TypeOK' PROVE IInv'
<1>1. /\ UNCHANGED <<deliveryStatus, attempts, pc, batch, cur, result>>
      /\ \A n \in Notes : lastAttempt'[n] = Older(lastAttempt[n])
  BY DEF Tick, work
<1>2. \A n \in Notes : /\ lastAttempt[n] = Never => lastAttempt'[n] = Never
                       /\ \A s \in Senders : Due(s, n) => Due(s, n)'
  <2> SUFFICES ASSUME NEW n \in Notes
               PROVE  /\ lastAttempt[n] = Never => lastAttempt'[n] = Never
                      /\ \A s \in Senders : Due(s, n) => Due(s, n)'
    OBVIOUS
  <2>1. /\ lastAttempt'[n] = Older(lastAttempt[n]) /\ lastAttempt'[n] >= lastAttempt[n]
        /\ lastAttempt[n] = Never => lastAttempt'[n] = Never
        /\ lastAttempt[n] \in Int /\ lastAttempt'[n] \in Int
    BY <1>1, OlderType DEF IInv, TypeOK
  <2>2. \A s \in Senders : Backoff[s] \in Nat
    BY SendersAssumption
  <2> QED  BY <2>1, <2>2 DEF Due
<1>3. \A s \in Senders : \A n \in batch[s] : n \in Notes
  BY DEF IInv, TypeOK
<1>4. Unattempted' /\ StillEligible'
  BY <1>1, <1>2, <1>3 DEF IInv, Unattempted, StillEligible
<1>5. ExclusiveProcessing' /\ AttemptsWithinBudget' /\ HoldsOnlyBatch' /\ OutcomesFit'
        /\ SendsOwnBatch'
  BY <1>1 DEF IInv, ExclusiveProcessing, AttemptsWithinBudget, HoldsOnlyBatch,
              OutcomesFit, OutcomeFits, SendsOwnBatch
<1> QED  BY <1>4, <1>5 DEF IInv

(* One more outcome decided for a record of the batch of s. *)
LEMMA OutcomeInv ==
    ASSUME IInv, NEW s \in Senders, NEW n \in batch[s], NEW o \in Outcomes,
           result' = [result EXCEPT ![s][n] = o],
           o = "failed" => attempts[n] + 1 < MaxAttempts[s],
           o = "permanent_failure" => attempts[n] + 1 >= MaxAttempts[s],
           UNCHANGED <<rows, batch>>, pc[s] # "idle", pc'[s] # "idle",
           \A t \in Senders \ {s} : pc'[t] = pc[t]
    PROVE  HoldsOnlyBatch' /\ OutcomesFit'
<1>1. n \in Notes
  BY DEF IInv, TypeOK
<1>2. \A t \in Senders : \A m \in Notes :
         result'[t][m] = IF t = s /\ m = n THEN o ELSE result[t][m]
  BY <1>1 DEF IInv, TypeOK
<1>3. HoldsOnlyBatch'
  BY <1>2 DEF IInv, HoldsOnlyBatch
<1>4. \A t \in Senders : \A m \in batch[t] : m \in Notes
  BY DEF IInv, TypeOK
<1>5. OutcomesFit'
  BY <1>2, <1>4 DEF IInv, OutcomesFit, OutcomeFits, rows
<1> QED  BY <1>3, <1>5

LEMMA LoadTokensInv ==
    ASSUME IInv, NEW s \in Senders, NEW n \in Notes, LoadTokens(s, n), TypeOK'
    PROVE  IInv'
<1>1. /\ n \in batch[s] /\ pc[s] = "batch"
      /\ UNCHANGED <<rows, batch>>
  BY DEF LoadTokens, Todo
<1>2. ExclusiveProcessing' /\ AttemptsWithinBudget' /\ Unattempted' /\ StillEligible'
  BY <1>1, RowsUntouched
<1>3. CASE TokensOf(n) = {}
  <2>1. result' = [result EXCEPT ![s][n] = "skipped"] /\ UNCHANGED <<pc, cur>>
    BY <1>3 DEF LoadTokens, work
  <2>2. HoldsOnlyBatch' /\ OutcomesFit'
    BY <2>1, <1>1, OutcomeInv DEF Outcomes
  <2>3. SendsOwnBatch'
    BY <2>1, <1>1 DEF IInv, SendsOwnBatch
  <2> QED  BY <1>2, <2>2, <2>3 DEF IInv
<1>4. CASE TokensOf(n) # {}
  <2>1. /\ pc' = [pc EXCEPT ![s] = "push"] /\ cur' = [cur EXCEPT ![s] = n]
        /\ UNCHANGED result
    BY <1>4 DEF LoadTokens
  <2>2. HoldsOnlyBatch' /\ OutcomesFit'
    BY <2>1, <1>1 DEF IInv, TypeOK, rows, HoldsOnlyBatch, OutcomesFit, OutcomeFits
  <2>3. SendsOwnBatch'
    BY <2>1, <1>1 DEF IInv, TypeOK, SendsOwnBatch
  <2> QED  BY <1>2, <2>2, <2>3 DEF IInv
<1> QED  BY <1>3, <1>4

LEMMA SettleInv == ASSUME IInv, NEW s \in Senders, Settle(s), TypeOK' PROVE IInv'
<1> DEFINE n == cur[s]
<1>1. /\ n \in batch[s] /\ n \in Notes /\ attempts[n] \in Nat /\ MaxAttempts[s] \in Nat
  BY SendersAssumption DEF Settle, IInv, TypeOK, SendsOwnBatch
<1>2. /\ Verdict(s, n) \in Outcomes
      /\ Verdict(s, n) = "failed" => attempts[n] + 1 < MaxAttempts[s]
      /\ Verdict(s, n) = "permanent_failure" => attempts[n] + 1 >= MaxAttempts[s]
  BY <1>1 DEF Verdict, Outcomes
<1>3. /\ result' = [result EXCEPT ![s][n] = Verdict(s, n)]
      /\ UNCHANGED <<rows, batch>>
      /\ pc[s] = "push" /\ pc' = [pc EXCEPT ![s] = "batch"]
      /\ cur' = [cur EXCEPT ![s] = NoNote]
  BY DEF Settle
<1>4. /\ pc'[s] # "idle" /\ \A t \in Senders \ {s} : pc'[t] = pc[t] /\ cur'[t] = cur[t]
      /\ pc'[s] = "batch"
  BY <1>3 DEF IInv, TypeOK
<1>5. HoldsOnlyBatch' /\ OutcomesFit'
  BY <1>1, <1>2, <1>3, <1>4, OutcomeInv
<1>6. ExclusiveProcessing' /\ AttemptsWithinBudget' /\ Unattempted' /\ StillEligible'
  BY <1>3, RowsUntouched
<1>7. SendsOwnBatch'
  BY <1>3, <1>4 DEF IInv, SendsOwnBatch
<1> QED  BY <1>5, <1>6, <1>7 DEF IInv

(* What a commit writes, row by row. *)
LEMMA CommitRows ==
    ASSUME IInv, NEW s \in Senders, Commit(s)
    PROVE  /\ batch[s] \subseteq Notes
           /\ \A n \in batch[s] : /\ result[s][n] \in Outcomes
                                  /\ OutcomeFits(s, n)
                                  /\ deliveryStatus'[n] = result[s][n]
                                  /\ attempts'[n] = attempts[n] + 1
                                  /\ lastAttempt'[n] = elapsed[s]
           /\ \A n \in Notes \ batch[s] : /\ deliveryStatus'[n] = deliveryStatus[n]
                                          /\ attempts'[n] = attempts[n]
                                          /\ lastAttempt'[n] = lastAttempt[n]
<1>1. batch[s] \subseteq Notes
  BY DEF IInv, TypeOK
<1>2. \A n \in batch[s] : result[s][n] \in Outcomes
  BY <1>1 DEF Commit, Todo, IInv, TypeOK
<1>3. \A n \in batch[s] : OutcomeFits(s, n)
  BY DEF IInv, OutcomesFit
<1> QED  BY <1>1, <1>2, <1>3 DEF Commit

(* The attempt that a commit records was still within the budget. *)
LEMMA CommitBudget ==
    ASSUME IInv, NEW s \in Senders, Commit(s), NEW n \in batch[s]
    PROVE  /\ attempts[n] \in Nat /\ attempts[n] < MaxAttempts[s]
           /\ MaxAttempts[s] \in Nat
<1>1. n \in Notes /\ attempts[n] \in Nat /\ MaxAttempts[s] \in Nat \ {0}
  BY SendersAssumption DEF IInv, TypeOK
<1>2. CASE deliveryStatus[n] = "queued"
  BY <1>1, <1>2 DEF IInv, Unattempted
<1>3. CASE deliveryStatus[n] # "queued"
  BY <1>1, <1>3 DEF IInv, StillEligible
<1> QED  BY <1>1, <1>2, <1>3

LEMMA CommitInv == ASSUME IInv, NEW s \in Senders, Commit(s), TypeOK' PROVE IInv'
<1>1. /\ batch'[s] = {} /\ pc'[s] = "idle"
      /\ \A t \in Senders \ {s} : /\ batch'[t] = batch[t] /\ pc'[t] = pc[t]
                                  /\ cur'[t] = cur[t] /\ result'[t] = result[t]
  BY DEF Commit, Release, IInv, TypeOK
<1>2. \A t \in Senders \ {s} : \A n \in batch[t] : n \in Notes \ batch[s]
  BY DEF IInv, TypeOK, ExclusiveProcessing
<1>3. ExclusiveProcessing' /\ SendsOwnBatch'
  BY <1>1 DEF IInv, ExclusiveProcessing, SendsOwnBatch
<1>4. HoldsOnlyBatch'
  BY <1>1 DEF IInv, TypeOK, HoldsOnlyBatch, Commit, Release, NoResult
<1>5. StillEligible' /\ OutcomesFit'
  <2> SUFFICES ASSUME NEW t \in Senders \ {s}, NEW n \in batch[t]
               PROVE  /\ \/ deliveryStatus'[n] = "queued"
                         \/ /\ RetryFailed[t] /\ deliveryStatus'[n] = "failed"
                            /\ attempts'[n] < MaxAttempts[t]
                            /\ Due(t, n)'
                      /\ OutcomeFits(t, n)'
    BY <1>1 DEF StillEligible, OutcomesFit
  <2>1. /\ deliveryStatus'[n] = deliveryStatus[n] /\ attempts'[n] = attempts[n]
        /\ lastAttempt'[n] = lastAttempt[n]
    BY <1>2, CommitRows
  <2> QED  BY <1>1, <2>1 DEF IInv, StillEligible, Due, OutcomesFit, OutcomeFits
<1>6. Unattempted'
  <2> SUFFICES ASSUME NEW n \in Notes, deliveryStatus'[n] \in {"absent", "queued"}
               PROVE  attempts'[n] = 0 /\ lastAttempt'[n] = Never
    BY DEF Unattempted
  <2>1. n \notin batch[s]
    BY CommitRows DEF Outcomes
  <2> QED  BY <2>1, CommitRows DEF IInv, Unattempted
<1>7. AttemptsWithinBudget'
  <2> SUFFICES ASSUME NEW n \in Notes
               PROVE  attempts'[n] > 0 =>
                        \E t \in Senders : IF deliveryStatus'[n] = "failed"
                                           THEN attempts'[n] < MaxAttempts[t]
                                           ELSE attempts'[n] <= MaxAttempts[t]
    BY <1>6 DEF AttemptsWithinBudget, Unattempted
  <2>1. CASE n \notin batch[s]
    BY <2>1, CommitRows DEF IInv, AttemptsWithinBudget
  <2>2. CASE n \in batch[s]
    <3>1. /\ attempts'[n] = attempts[n] + 1 /\ deliveryStatus'[n] = result[s][n]
          /\ OutcomeFits(s, n)
      BY <2>2, CommitRows
    <3>2. attempts'[n] <= MaxAttempts[s]
      BY <2>2, <3>1, CommitBudget
    <3> QED  BY <3>1, <3>2 DEF OutcomeFits
  <2> QED  BY <2>1, <2>2
<1> QED  BY <1>3, <1>4, <1>5, <1>6, <1>7 DEF IInv

LEMMA InvStep == IInv /\ [Next]_vars => IInv'
<1> SUFFICES ASSUME IInv, [Next]_vars PROVE IInv'
  OBVIOUS
<1>1. TypeOK'
  BY TypeStep DEF IInv
<1>2. CASE Enqueue
  BY <1>2, <1>1, InsertInv DEF Enqueue, Statuses
<1>3. ASSUME NEW n \in Notes, CreateNotification(n) PROVE IInv'
  <2>1. PICK st \in CreateStatuses : Insert({n}, st)
    BY <1>3 DEF CreateNotification
  <2>2. st \in Statuses \ {"absent"} /\ {n} \in SUBSET (Notes \ Present)
    BY <1>3, NotesAssumption DEF CreateNotification
  <2> QED  BY <1>1, <2>1, <2>2, InsertInv
<1>4. CASE Tick
  BY <1>4, <1>1, TickInv
<1>5. CASE \/ UNCHANGED vars
           \/ \E u \in Users, d \in Devices : RegisterToken(u, d)
           \/ \E r \in tokens : DeleteToken(r)
           \/ \E s \in Senders : \E r \in pending[s] : PushAccepted(s, r) \/ PushRefused(s, r)
  <2>1. UNCHANGED <<rows, batch, pc, cur, result>>
    BY <1>5 DEF vars, RegisterToken, DeleteToken, PushAccepted, PushRefused, trans, work
  <2>2. HoldsOnlyBatch' /\ OutcomesFit' /\ SendsOwnBatch'
    BY <2>1 DEF IInv, rows, HoldsOnlyBatch, OutcomesFit, OutcomeFits, SendsOwnBatch
  <2> QED  BY <1>1, <2>1, <2>2, RowsUntouched DEF IInv
<1>6. ASSUME NEW s \in Senders, Select(s) PROVE IInv'
  BY <1>6, <1>1, SelectInv
<1>7. ASSUME NEW s \in Senders, NEW n \in Notes, LoadTokens(s, n) PROVE IInv'
  BY <1>7, <1>1, LoadTokensInv
<1>8. ASSUME NEW s \in Senders, Settle(s) PROVE IInv'
  BY <1>8, <1>1, SettleInv
<1>9. ASSUME NEW s \in Senders, Commit(s) PROVE IInv'
  BY <1>9, <1>1, CommitInv
<1>10. ASSUME NEW s \in Senders, PushRaises(s) \/ Crash(s) PROVE IInv'
  BY <1>10, <1>1, ReleaseInv DEF PushRaises, Crash
<1> QED
  BY <1>2, <1>3, <1>4, <1>5, <1>6, <1>7, <1>8, <1>9, <1>10 DEF Next, SenderStep

LEMMA Invariance == Spec => []IInv
  BY InvInit, InvStep, PTL DEF Spec

(* Row locks keep two senders off one notification: for any number of      *)
(* senders with any budgets, no notification is ever in two open batches.  *)
THEOREM NoDoubleProcessing == Spec => []ExclusiveProcessing
  BY Invariance, PTL DEF IInv

(* A queued row was never attempted, a row left "failed" by an attempt     *)
(* still has a sender allowed to retry it, and the recorded attempts never *)
(* exceed the largest budget, however the senders' batches interleave,     *)
(* fail and are rolled back.                                               *)
THEOREM BudgetRespected == Spec => []AttemptsWithinBudget
  BY Invariance, PTL DEF IInv

-----------------------------------------------------------------------------
(* Steps. *)

(* Only a commit counts an attempt, and of a row that was due when it was  *)
(* selected and locked since.                                              *)
LEMMA BackoffStep ==
    IInv /\ [Next]_vars =>
      [\A n \in Notes : attempts'[n] # attempts[n] =>
                         \E s \in Senders : n \in batch[s] /\ Due(s, n)]_vars
<1> SUFFICES ASSUME IInv, Next, NEW n \in Notes, attempts'[n] # attempts[n]
             PROVE  \E s \in Senders : n \in batch[s] /\ Due(s, n)
  OBVIOUS
<1>1. PICK s \in Senders : Commit(s)
  BY DEF Next, SenderStep, Enqueue, CreateNotification, Insert, Tick, RegisterToken,
         DeleteToken, Select, LoadTokens, PushAccepted, PushRefused, Settle, PushRaises,
         Crash, rows
<1>2. n \in batch[s]
  BY <1>1, CommitRows
<1>3. CASE deliveryStatus[n] = "queued"
  BY <1>2, <1>3 DEF IInv, Unattempted, Due
<1>4. CASE deliveryStatus[n] # "queued"
  BY <1>2, <1>4 DEF IInv, StillEligible
<1> QED  BY <1>3, <1>4

(* No recorded attempt is followed by another within the backoff of the    *)
(* sender that makes it: a retry is only ever selected once the last one   *)
(* is that old, and the lock keeps it so until the commit.                 *)
THEOREM RecordsSpaced == Spec => BackoffBetweenRecords
  BY Invariance, BackoffStep, PTL DEF Spec, BackoffBetweenRecords

-----------------------------------------------------------------------------
(* Refinement: the outbox is the delivery life cycle of module Delivery.   *)

LEMMA RefineInit == Init => D!AInit
  BY DEF Init, D!AInit

LEMMA RefineInsert ==
    ASSUME NEW N \in SUBSET (Notes \ Present), NEW st \in Statuses \ {"absent"}, Insert(N, st)
    PROVE  D!Create
<1>1. /\ N \in SUBSET Notes /\ st \in D!Statuses \ {"absent"}
      /\ \A n \in N : deliveryStatus[n] = "absent"
  BY DEF Present, Statuses, Outcomes, D!Statuses, D!Outcomes
<1>2. /\ deliveryStatus' = [n \in Notes |-> IF n \in N THEN st ELSE deliveryStatus[n]]
      /\ UNCHANGED attempts
  BY DEF Insert
<1> QED  BY <1>1, <1>2 DEF D!Create

LEMMA RefineCommit == ASSUME IInv, NEW s \in Senders, Commit(s) PROVE D!Record
<1> DEFINE b == MaxAttempts[s]
           out == [n \in Notes |-> IF n \in batch[s] THEN result[s][n] ELSE "sent"]
<1>1. batch[s] \in SUBSET Notes /\ b \in {MaxAttempts[t] : t \in Senders}
  BY CommitRows
<1>2. out \in [Notes -> D!Outcomes]
  BY CommitRows DEF Outcomes, D!Outcomes
<1>3. ASSUME NEW n \in batch[s] PROVE D!MayRecord(n, b, out[n])
  <2>1. n \in Notes /\ out[n] = result[s][n] /\ out[n] \in D!Outcomes
    BY CommitRows DEF Outcomes, D!Outcomes
  <2>2. \/ deliveryStatus[n] = "queued"
        \/ deliveryStatus[n] = "failed" /\ attempts[n] < b
    BY DEF IInv, StillEligible
  <2>3. OutcomeFits(s, n)
    BY CommitRows
  <2> QED  BY <2>1, <2>2, <2>3 DEF OutcomeFits, D!MayRecord
<1>4. /\ deliveryStatus' = [n \in Notes |->
            IF n \in batch[s] THEN out[n] ELSE deliveryStatus[n]]
      /\ attempts' = [n \in Notes |->
            IF n \in batch[s] THEN attempts[n] + 1 ELSE attempts[n]]
  BY DEF Commit
<1> HIDE DEF b, out
<1> QED  BY <1>1, <1>2, <1>3, <1>4 DEF D!Record

LEMMA RefineStep == IInv /\ [Next]_vars => [D!ANext]_(D!avars)
<1> SUFFICES ASSUME IInv, [Next]_vars PROVE D!ANext \/ UNCHANGED <<deliveryStatus, attempts>>
  BY DEF D!avars
<1>1. CASE Enqueue
  BY <1>1, RefineInsert DEF Enqueue, Statuses, D!ANext
<1>2. ASSUME NEW n \in Notes, CreateNotification(n) PROVE D!ANext
  <2>1. PICK st \in CreateStatuses : Insert({n}, st)
    BY <1>2 DEF CreateNotification
  <2>2. st \in Statuses \ {"absent"} /\ {n} \in SUBSET (Notes \ Present)
    BY <1>2, NotesAssumption DEF CreateNotification
  <2> QED  BY <2>1, <2>2, RefineInsert DEF D!ANext
<1>3. ASSUME NEW s \in Senders, Commit(s) PROVE D!ANext
  BY <1>3, RefineCommit DEF D!ANext
<1>4. ASSUME NEW s \in Senders, SenderStep(s) \/ Crash(s), ~Commit(s)
      PROVE  UNCHANGED <<deliveryStatus, attempts>>
  BY <1>4 DEF SenderStep, Select, LoadTokens, PushAccepted, PushRefused, Settle,
              PushRaises, Crash, rows
<1>5. CASE \/ UNCHANGED vars \/ Tick
           \/ \E u \in Users, d \in Devices : RegisterToken(u, d)
           \/ \E r \in tokens : DeleteToken(r)
  BY <1>5 DEF vars, Tick, RegisterToken, DeleteToken, rows
<1> QED  BY <1>1, <1>2, <1>3, <1>4, <1>5 DEF Next

(* Locks, batches, faults, retries and several senders together never      *)
(* record anything but what the life cycle of one notification allows: no  *)
(* second attempt after "sent", "skipped" or "permanent_failure", and      *)
(* "permanent_failure" exactly when an attempt fails with none left.       *)
THEOREM Refinement == Spec => ImplementsDelivery
  BY Invariance, RefineInit, RefineStep, PTL DEF Spec, ImplementsDelivery, D!ASpec

-----------------------------------------------------------------------------
(* Token rows are deleted by primary key when the batch commits, long      *)
(* after they were read; ids are never reused, so the row deleted is still *)
(* the row FCM refused.                                                    *)

UniqueIds == /\ \A r \in tokens : r.id < nextRow
             /\ \A q, r \in tokens : q.id = r.id => q = r

PendingOwned == \A s \in Senders : \A r \in pending[s] :
    /\ pc[s] = "push" /\ r.user = Owner[cur[s]] /\ r.id < nextRow
    /\ \A q \in tokens : q.id = r.id => q.user = r.user

InvalidKnown == \A s \in Senders : \A i \in invalid[s] : i < nextRow

TInv == UniqueIds /\ PendingOwned /\ InvalidKnown /\ DeletesOwnTokens

LEMMA TokensInit == Init => TInv
  BY DEF Init, TInv, UniqueIds, PendingOwned, InvalidKnown, DeletesOwnTokens

(* Steps that only ever remove token rows and forget pending ones. *)
LEMMA ReleaseTokens ==
    ASSUME IInv, TInv, NEW s \in Senders, Release(s),
           tokens' \subseteq tokens, UNCHANGED nextRow
    PROVE  TInv'
<1>1. /\ pending'[s] = {} /\ invalid'[s] = {}
      /\ \A t \in Senders \ {s} : /\ pending'[t] = pending[t] /\ invalid'[t] = invalid[t]
                                  /\ batch'[t] = batch[t] /\ pc'[t] = pc[t]
                                  /\ cur'[t] = cur[t]
  BY DEF Release, IInv, TypeOK
<1>2. UniqueIds' /\ InvalidKnown'
  BY <1>1 DEF TInv, UniqueIds, InvalidKnown
<1>3. PendingOwned'
  BY <1>1 DEF TInv, PendingOwned
<1>4. DeletesOwnTokens'
  BY <1>1 DEF TInv, DeletesOwnTokens
<1> QED  BY <1>2, <1>3, <1>4 DEF TInv

LEMMA RegisterTokens ==
    ASSUME IInv, TInv, NEW u \in Users, NEW d \in Devices, RegisterToken(u, d)
    PROVE  TInv'
<1> DEFINE new == [id |-> nextRow, user |-> u, device |-> d]
<1>1. /\ \A r \in tokens' : r \in tokens \/ r = new
      /\ nextRow' = nextRow + 1 /\ nextRow \in Nat
      /\ UNCHANGED <<pending, invalid, batch, pc, cur>>
  BY DEF RegisterToken, IInv, TypeOK, trans, work
<1>2. \A r \in tokens : r.id \in Nat /\ r.id < nextRow
  BY DEF IInv, TypeOK, TokenRow, TInv, UniqueIds
<1>3. UniqueIds'
  BY <1>1, <1>2 DEF TInv, UniqueIds
<1>4. \A s \in Senders : \A i \in invalid[s] : i \in Nat /\ i < nextRow
  BY DEF IInv, TypeOK, TInv, InvalidKnown
<1>5. InvalidKnown' /\ DeletesOwnTokens'
  BY <1>1, <1>4 DEF TInv, InvalidKnown, DeletesOwnTokens
<1>6. \A s \in Senders : \A r \in pending[s] : r.id \in Nat /\ r.id < nextRow
  BY DEF IInv, TypeOK, TokenRow, TInv, PendingOwned
<1>7. PendingOwned'
  BY <1>1, <1>6 DEF TInv, PendingOwned
<1> QED  BY <1>3, <1>5, <1>7 DEF TInv

LEMMA PushTokens ==
    ASSUME IInv, TInv, NEW s \in Senders, NEW r \in pending[s],
           PushAccepted(s, r) \/ PushRefused(s, r)
    PROVE  TInv'
<1>1. /\ UNCHANGED <<tokens, nextRow, pc, cur, batch>>
      /\ pending' = [pending EXCEPT ![s] = @ \ {r}]
      /\ \/ UNCHANGED invalid
         \/ invalid' = [invalid EXCEPT ![s] = @ \union {r.id}]
  BY DEF PushAccepted, PushRefused, registry, IInv, TypeOK
<1>2. \A t \in Senders : /\ pending'[t] \subseteq pending[t]
                         /\ \A i \in invalid'[t] : i \in invalid[t] \/ (t = s /\ i = r.id)
  <2>1. \A t \in Senders : pending'[t] = IF t = s THEN pending[t] \ {r} ELSE pending[t]
    BY <1>1 DEF IInv, TypeOK
  <2>2. \A t \in Senders : pending'[t] \subseteq pending[t]
    BY <2>1
  <2>3. CASE UNCHANGED invalid
    BY <2>2, <2>3
  <2>4. CASE invalid' = [invalid EXCEPT ![s] = @ \union {r.id}]
    <3>1. \A t \in Senders : invalid'[t] =
            IF t = s THEN invalid[t] \union {r.id} ELSE invalid[t]
      BY <2>4 DEF IInv, TypeOK
    <3> QED  BY <2>2, <3>1
  <2> QED  BY <1>1, <2>3, <2>4
<1>3. UniqueIds' /\ PendingOwned'
  BY <1>1, <1>2 DEF TInv, UniqueIds, PendingOwned
<1>4. InvalidKnown'
  BY <1>1, <1>2 DEF TInv, InvalidKnown, PendingOwned
<1>5. cur[s] \in batch[s]
  BY DEF IInv, SendsOwnBatch, TInv, PendingOwned
<1>6. DeletesOwnTokens'
  BY <1>1, <1>2, <1>5 DEF TInv, DeletesOwnTokens, PendingOwned
<1> QED  BY <1>3, <1>4, <1>6 DEF TInv

LEMMA TokensStep == IInv /\ TInv /\ [Next]_vars => TInv'
<1> SUFFICES ASSUME IInv, TInv, [Next]_vars PROVE TInv'
  OBVIOUS
<1>1. CASE \/ UNCHANGED vars \/ Tick \/ Enqueue
           \/ \E n \in Notes : CreateNotification(n)
           \/ \E r \in tokens : DeleteToken(r)
  <2>1. tokens' \subseteq tokens /\ UNCHANGED <<nextRow, pending, invalid, pc, cur, batch>>
    BY <1>1 DEF vars, Tick, Enqueue, CreateNotification, Insert, DeleteToken, registry,
                trans, work
  <2> QED  BY <2>1 DEF TInv, UniqueIds, PendingOwned, InvalidKnown, DeletesOwnTokens
<1>2. ASSUME NEW u \in Users, NEW d \in Devices, RegisterToken(u, d) PROVE TInv'
  BY <1>2, RegisterTokens
<1>3. ASSUME NEW s \in Senders, Select(s) PROVE TInv'
  <2>1. /\ UNCHANGED <<tokens, nextRow, pending, invalid, cur>> /\ pc[s] = "idle"
        /\ \A t \in Senders \ {s} : pc'[t] = pc[t] /\ batch'[t] = batch[t]
    BY <1>3 DEF Select, registry, work, IInv, TypeOK
  <2>2. pending[s] = {} /\ batch[s] = {}
    BY <2>1 DEF TInv, PendingOwned, IInv, HoldsOnlyBatch
  <2>3. UniqueIds' /\ InvalidKnown' /\ PendingOwned'
    BY <2>1, <2>2 DEF TInv, UniqueIds, InvalidKnown, PendingOwned
  <2>4. DeletesOwnTokens'
    BY <2>1, <2>2 DEF TInv, DeletesOwnTokens
  <2> QED  BY <2>3, <2>4 DEF TInv
<1>4. ASSUME NEW s \in Senders, NEW n \in Notes, LoadTokens(s, n) PROVE TInv'
  <2>1. UNCHANGED <<tokens, nextRow, invalid, batch>> /\ pc[s] = "batch"
    BY <1>4 DEF LoadTokens, registry
  <2>2. UniqueIds' /\ InvalidKnown' /\ DeletesOwnTokens'
    BY <2>1 DEF TInv, UniqueIds, InvalidKnown, DeletesOwnTokens
  <2>3. CASE TokensOf(n) = {}
    BY <1>4, <2>1, <2>2, <2>3 DEF LoadTokens, TInv, PendingOwned, work
  <2>4. CASE TokensOf(n) # {}
    <3>1. /\ pending'[s] = TokensOf(n) /\ pc'[s] = "push" /\ cur'[s] = n
          /\ \A t \in Senders \ {s} : /\ pending'[t] = pending[t] /\ pc'[t] = pc[t]
                                      /\ cur'[t] = cur[t]
      BY <1>4, <2>4 DEF LoadTokens, IInv, TypeOK
    <3>2. PendingOwned'
      BY <2>1, <3>1 DEF TInv, UniqueIds, PendingOwned, TokensOf
    <3> QED  BY <2>2, <3>2 DEF TInv
  <2> QED  BY <2>3, <2>4
<1>5. ASSUME NEW s \in Senders, NEW r \in pending[s], PushAccepted(s, r) \/ PushRefused(s, r)
      PROVE  TInv'
  BY <1>5, PushTokens
<1>6. ASSUME NEW s \in Senders, Settle(s) PROVE TInv'
  <2>1. /\ UNCHANGED <<tokens, nextRow, invalid, batch, pending>> /\ pending[s] = {}
        /\ \A t \in Senders \ {s} : pc'[t] = pc[t] /\ cur'[t] = cur[t]
    BY <1>6 DEF Settle, registry, IInv, TypeOK
  <2> QED  BY <2>1 DEF TInv, UniqueIds, PendingOwned, InvalidKnown, DeletesOwnTokens
<1>7. ASSUME NEW s \in Senders, Commit(s) \/ PushRaises(s) \/ Crash(s) PROVE TInv'
  <2>1. Release(s) /\ tokens' \subseteq tokens /\ UNCHANGED nextRow
    BY <1>7 DEF Commit, PushRaises, Crash, registry
  <2> QED  BY <2>1, ReleaseTokens
<1> QED  BY <1>1, <1>2, <1>3, <1>4, <1>5, <1>6, <1>7 DEF Next, SenderStep

(* What a sender holds in memory stays true of the rows it locked, and the *)
(* token rows it deletes are of users it pushed to, although users keep    *)
(* registering and deleting tokens while the batch runs.                   *)
THEOREM BatchConsistent == Spec => []BatchMatchesRows
  BY Invariance, TokensInit, TokensStep, PTL DEF Spec, IInv, TInv, BatchMatchesRows

-----------------------------------------------------------------------------
(* What reached FCM.  The history of OutboxPushes rides along with steps   *)
(* of Outbox, so all of the above holds of it too.                         *)

LEMMA PushesRefine == PSpec => Spec
<1>1. PInit => Init
  BY DEF PInit
<1>2. [PNext]_pvars => [Next]_vars
  BY DEF PNext, Quiet, Raise, LoadRound, Accept, Refuse, Next, SenderStep, pvars
<1> QED  BY <1>1, <1>2, PTL DEF PSpec, Spec

(* Who has a message accepted, or a record being sent or settled as sent,  *)
(* has started a round for it, and FCM has seen it; and a refusal in that  *)
(* round is remembered until the record is settled.                        *)
Reaching ==
    /\ rounds \in [Notes -> Nat]
    /\ \A s \in Senders : /\ accepted[s] => pc[s] = "push" /\ cur[s] \in reached
                          /\ pc[s] = "push" => /\ rounds[cur[s]] > 0
                                               /\ result[s][cur[s]] = "none"
                                               /\ cur[s] \in missed => refused[s]
                          /\ \A n \in Notes : result[s][n] = "sent" => n \in reached \ missed

RInv == Reaching /\ SentWasReached

LEMMA ReachInit == PInit => RInv
  BY DEF PInit, Init, RInv, Reaching, SentWasReached, NoResult

(* Steps that end a transaction and write no row. *)
LEMMA RaiseReach ==
    ASSUME IInv, RInv, NEW s \in Senders, Release(s), UNCHANGED <<rows, rounds, missed>>,
           \/ UNCHANGED reached
           \/ pc[s] = "push" /\ Reached(cur[s])
    PROVE  RInv'
<1>1. /\ pc'[s] = "idle" /\ ~accepted'[s] /\ \A n \in Notes : result'[s][n] = "none"
      /\ \A t \in Senders \ {s} : /\ accepted'[t] = accepted[t] /\ pc'[t] = pc[t]
                                  /\ cur'[t] = cur[t] /\ result'[t] = result[t]
                                  /\ refused'[t] = refused[t]
  BY DEF Release, NoResult, IInv, TypeOK
<1>2. reached \subseteq reached' /\ \A n \in reached' : n \in reached \/ rounds[n] > 0
  BY DEF Reached, RInv, Reaching
<1>3. Reaching'
  BY <1>1, <1>2 DEF RInv, Reaching
<1>4. SentWasReached'
  BY <1>2 DEF RInv, SentWasReached, rows
<1> QED  BY <1>3, <1>4 DEF RInv

LEMMA CommitReach == ASSUME IInv, RInv, NEW s \in Senders, Commit(s), UNCHANGED history
                     PROVE  RInv'
<1>1. /\ pc'[s] = "idle" /\ ~accepted'[s] /\ \A n \in Notes : result'[s][n] = "none"
      /\ \A t \in Senders \ {s} : /\ accepted'[t] = accepted[t] /\ pc'[t] = pc[t]
                                  /\ cur'[t] = cur[t] /\ result'[t] = result[t]
                                  /\ refused'[t] = refused[t]
  BY DEF Commit, Release, NoResult, IInv, TypeOK
<1>2. Reaching'
  BY <1>1 DEF RInv, Reaching, history
<1>3. ASSUME NEW n \in Notes, deliveryStatus'[n] = "sent", attempts'[n] > 0
      PROVE  n \in reached \ missed
  <2>1. CASE n \in batch[s]
    BY <1>3, <2>1, CommitRows DEF RInv, Reaching
  <2>2. CASE n \notin batch[s]
    BY <1>3, <2>2, CommitRows DEF RInv, SentWasReached
  <2> QED  BY <2>1, <2>2
<1>4. SentWasReached'
  BY <1>3 DEF RInv, SentWasReached, history
<1> QED  BY <1>2, <1>4 DEF RInv

LEMMA LoadReach == ASSUME IInv, RInv, NEW s \in Senders, NEW n \in Notes, LoadRound(s, n)
                   PROVE  RInv'
<1>1. /\ LoadTokens(s, n) /\ UNCHANGED <<rows, reached, accepted, refused>>
      /\ missed' = missed \ {n} /\ result[s][n] = "none"
      /\ rounds' = [rounds EXCEPT ![n] = IF TokensOf(n) # {} /\ @ < RoundCap THEN @ + 1 ELSE @]
  BY DEF LoadRound, LoadTokens, work, Todo
<1>2. /\ rounds' \in [Notes -> Nat]
      /\ \A m \in Notes : rounds[m] > 0 => rounds'[m] > 0
      /\ TokensOf(n) # {} => rounds'[n] > 0
  BY <1>1, PushesAssumption DEF RInv, Reaching
<1>3. SentWasReached'
  BY <1>1, <1>2 DEF RInv, SentWasReached, Reaching, rows
<1>4. CASE TokensOf(n) = {}
  <2>1. /\ result' = [result EXCEPT ![s][n] = "skipped"] /\ UNCHANGED <<pc, cur>>
    BY <1>1, <1>4 DEF LoadTokens, work
  <2>2. \A t \in Senders, m \in Notes : result'[t][m] = "sent" => result[t][m] = "sent"
    BY <2>1 DEF IInv, TypeOK
  <2>3. \A t \in Senders : pc[t] = "push" => cur[t] \in Notes /\ (t = s => FALSE)
    BY <1>1 DEF IInv, TypeOK, LoadTokens
  <2>4. \A t \in Senders, m \in Notes : t # s => result'[t][m] = result[t][m]
    BY <2>1 DEF IInv, TypeOK
  <2> QED  BY <1>1, <1>2, <1>3, <2>1, <2>2, <2>3, <2>4 DEF RInv, Reaching
<1>5. CASE TokensOf(n) # {}
  <2>1. /\ UNCHANGED result /\ pc'[s] = "push" /\ cur'[s] = n /\ pc[s] # "push"
        /\ \A t \in Senders \ {s} : pc'[t] = pc[t] /\ cur'[t] = cur[t]
    BY <1>1, <1>5 DEF LoadTokens, IInv, TypeOK
  <2>2. \A t \in Senders : pc[t] = "push" => cur[t] \in Notes
    BY DEF IInv, TypeOK
  <2> QED  BY <1>1, <1>2, <1>3, <1>5, <2>1, <2>2 DEF RInv, Reaching
<1> QED  BY <1>4, <1>5

LEMMA AcceptReach ==
    ASSUME IInv, RInv, NEW s \in Senders, NEW r \in pending[s], Accept(s, r)
    PROVE  RInv'
<1>1. /\ pc[s] = "push" /\ UNCHANGED <<rows, pc, cur, result, rounds>>
      /\ accepted' = [accepted EXCEPT ![s] = TRUE] /\ UNCHANGED <<refused, missed>>
      /\ reached' = reached \union {cur[s]}
  BY DEF Accept, PushAccepted, Pushing, Reached
<1>2. rounds[cur[s]] > 0
  BY <1>1 DEF RInv, Reaching
<1>3. Reaching'
  BY <1>1 DEF RInv, Reaching, IInv, TypeOK
<1>4. SentWasReached'
  BY <1>1, <1>2 DEF RInv, SentWasReached, rows
<1> QED  BY <1>3, <1>4 DEF RInv

(* A refused record belongs to no other batch, and its own batch has not   *)
(* settled it: nobody holds it as sent.                                    *)
LEMMA RefuseReach ==
    ASSUME IInv, RInv, NEW s \in Senders, NEW r \in pending[s], Refuse(s, r)
    PROVE  RInv'
<1>1. /\ pc[s] = "push" /\ UNCHANGED <<rows, pc, cur, result, accepted, rounds, reached>>
      /\ refused' = [refused EXCEPT ![s] = TRUE] /\ missed' = missed \union {cur[s]}
  BY DEF Refuse, PushRefused, Pushing
<1>2. cur[s] \in batch[s] /\ cur[s] \in Notes /\ deliveryStatus[cur[s]] # "sent"
  BY <1>1 DEF IInv, TypeOK, SendsOwnBatch, StillEligible
<1>3. \A t \in Senders \ {s} : cur[s] \notin batch[t]
  BY <1>2 DEF IInv, ExclusiveProcessing
<1>4. \A t \in Senders : /\ result[t][cur[s]] = "none"
                         /\ t # s /\ pc[t] = "push" => cur[t] # cur[s]
  BY <1>1, <1>2, <1>3 DEF IInv, HoldsOnlyBatch, SendsOwnBatch, RInv, Reaching
<1>5. refused'[s] /\ \A t \in Senders \ {s} : refused'[t] = refused[t]
  BY <1>1 DEF IInv, TypeOK
<1>6. Reaching'
  BY <1>1, <1>4, <1>5 DEF RInv, Reaching
<1>7. SentWasReached'
  BY <1>1, <1>2 DEF RInv, SentWasReached, rows
<1> QED  BY <1>6, <1>7 DEF RInv

LEMMA SettleReach == ASSUME IInv, RInv, NEW s \in Senders, Settle(s), UNCHANGED history
                     PROVE  RInv'
<1>1. /\ cur[s] \in Notes /\ UNCHANGED rows
      /\ result' = [result EXCEPT ![s][cur[s]] = Verdict(s, cur[s])]
      /\ pc[s] = "push" /\ pc'[s] = "batch" /\ ~accepted'[s]
      /\ \A t \in Senders \ {s} : /\ accepted'[t] = accepted[t] /\ pc'[t] = pc[t]
                                  /\ cur'[t] = cur[t] /\ refused'[t] = refused[t]
  BY DEF Settle, IInv, TypeOK
<1>2. Verdict(s, cur[s]) = "sent" => cur[s] \in reached \ missed
  BY <1>1 DEF Verdict, RInv, Reaching
<1>3. \A t \in Senders, n \in Notes :
        result'[t][n] = IF t = s /\ n = cur[s] THEN Verdict(s, n) ELSE result[t][n]
  BY <1>1 DEF IInv, TypeOK
<1>4. Reaching'
  BY <1>1, <1>2, <1>3 DEF RInv, Reaching, history
<1> QED  BY <1>1, <1>4 DEF RInv, SentWasReached, history, rows

LEMMA ReachStep == IInv /\ RInv /\ [PNext]_pvars => RInv'
<1> SUFFICES ASSUME IInv, RInv, [PNext]_pvars PROVE RInv'
  OBVIOUS
<1>1. CASE UNCHANGED history /\ UNCHANGED <<rows, pc, cur, result, accepted, refused>>
  BY <1>1 DEF RInv, Reaching, SentWasReached, history, rows
<1>2. CASE UNCHANGED history /\ \E N \in SUBSET (Notes \ Present), st \in Statuses : Insert(N, st)
  <2>1. PICK N \in SUBSET (Notes \ Present), st \in Statuses : Insert(N, st)
    BY <1>2
  <2>2. /\ UNCHANGED <<attempts, pc, cur, result, accepted, refused>>
        /\ \A n \in Notes : deliveryStatus'[n] = IF n \in N THEN st ELSE deliveryStatus[n]
    BY <2>1 DEF Insert, trans, work
  <2>3. \A n \in N : attempts[n] = 0
    BY DEF IInv, Unattempted, Present
  <2> QED  BY <1>2, <2>2, <2>3 DEF RInv, Reaching, SentWasReached, history
<1>3. ASSUME NEW s \in Senders, Select(s), UNCHANGED history PROVE RInv'
  <2>1. /\ UNCHANGED <<rows, cur, result, accepted, refused>> /\ pc[s] = "idle" /\ pc'[s] = "batch"
        /\ \A t \in Senders \ {s} : pc'[t] = pc[t]
    BY <1>3 DEF Select, work, IInv, TypeOK
  <2> QED  BY <1>3, <2>1 DEF RInv, Reaching, SentWasReached, history, rows
<1>4. CASE UNCHANGED history /\ Tick
  BY <1>4 DEF Tick, work, RInv, Reaching, SentWasReached, history
<1>5. ASSUME NEW s \in Senders, NEW n \in Notes, LoadRound(s, n) PROVE RInv'
  BY <1>5, LoadReach
<1>6. ASSUME NEW s \in Senders, NEW r \in pending[s], Accept(s, r) \/ Refuse(s, r) PROVE RInv'
  BY <1>6, AcceptReach, RefuseReach
<1>7. ASSUME NEW s \in Senders, Settle(s), UNCHANGED history PROVE RInv'
  BY <1>7, SettleReach
<1>8. ASSUME NEW s \in Senders, Commit(s), UNCHANGED history PROVE RInv'
  BY <1>8, CommitReach
<1>9. ASSUME NEW s \in Senders, Raise(s) \/ (Crash(s) /\ UNCHANGED history) PROVE RInv'
  <2>1. /\ Release(s) /\ UNCHANGED <<rows, rounds, missed>>
        /\ UNCHANGED reached \/ (pc[s] = "push" /\ Reached(cur[s]))
    BY <1>9 DEF Raise, PushRaises, Crash, history
  <2> QED  BY <2>1, RaiseReach
<1>10. CASE \/ UNCHANGED pvars
            \/ /\ UNCHANGED history
               /\ \/ \E u \in Users, d \in Devices : RegisterToken(u, d)
                  \/ \E r \in tokens : DeleteToken(r)
  <2>1. UNCHANGED history /\ UNCHANGED <<rows, pc, cur, result, accepted, refused>>
    BY <1>10 DEF pvars, vars, RegisterToken, DeleteToken, trans, work
  <2> QED  BY <2>1, <1>1
<1>11. CASE UNCHANGED history /\ (Enqueue \/ \E n \in Notes : CreateNotification(n))
  <2>1. \E N \in SUBSET (Notes \ Present), st \in Statuses : Insert(N, st)
    BY <1>11, NotesAssumption DEF Enqueue, CreateNotification, Statuses
  <2> QED  BY <1>2, <1>11, <2>1
<1> QED  BY <1>3, <1>4, <1>5, <1>6, <1>7, <1>8, <1>9, <1>10, <1>11 DEF PNext, Quiet

(* The database never says "sent" of a notification that FCM did not take  *)
(* for some device, or refused for another in the same round, and FCM      *)
(* never has one that no sender began to push, however batches fail and    *)
(* are repeated.                                                           *)
THEOREM SentMeansReached == PSpec => []SentWasReached
  BY PushesRefine, Invariance, ReachInit, ReachStep, PTL DEF PSpec, RInv

-----------------------------------------------------------------------------
(* Rounds.  Sets of senders, counted. *)

LEMMA CountLess ==
    ASSUME NEW A \in SUBSET Senders, NEW B \in SUBSET Senders, NEW s, A \ {s} \subseteq B
    PROVE  /\ Cardinality(A) \in Nat /\ Cardinality(B) \in Nat
           /\ Cardinality(A) <= Cardinality(B) + 1
           /\ (s \in A => s \in B) => Cardinality(A) <= Cardinality(B)
           /\ s \notin A /\ s \in B => Cardinality(A) + 1 <= Cardinality(B)
<1>1. IsFiniteSet(A) /\ IsFiniteSet(B) /\ IsFiniteSet(A \ {s}) /\ IsFiniteSet(A \union {s})
  BY PushesAssumption, FS_Subset, FS_AddElement, FS_RemoveElement
<1>2. /\ Cardinality(A) \in Nat /\ Cardinality(B) \in Nat
      /\ Cardinality(A \ {s}) <= Cardinality(B)
      /\ Cardinality(A) <= Cardinality(A \ {s}) + 1
      /\ Cardinality(A \ {s}) \in Nat
  BY <1>1, FS_CardinalityType, FS_Subset, FS_RemoveElement
<1>3. (s \in A => s \in B) => Cardinality(A) <= Cardinality(B)
  BY <1>1, FS_Subset
<1>4. s \notin A /\ s \in B => Cardinality(A) + 1 <= Cardinality(B)
  <2> SUFFICES ASSUME s \notin A, s \in B PROVE Cardinality(A) + 1 <= Cardinality(B)
    OBVIOUS
  <2>1. Cardinality(A \union {s}) = Cardinality(A) + 1
    BY <1>1, FS_AddElement
  <2>2. A \union {s} \subseteq B
    OBVIOUS
  <2>3. Cardinality(A \union {s}) <= Cardinality(B)
    BY <1>1, <2>2, FS_Subset
  <2> QED  BY <2>1, <2>3
<1> QED  BY <1>2, <1>3, <1>4

(* A sender's pushes of a record are forgotten only when its transaction   *)
(* ends, by a commit that counts an attempt or by a fault.                 *)
LEMMA RoundBound ==
    ASSUME NEW n \in Notes, NEW s,
           IInv, Reaching, RoundsAccounted, rounds' \in [Notes -> Nat],
           attempts'[n] \in Nat, faults' \in Nat,
           InFlight(n) \ {s} \subseteq InFlight(n)',
           \/ /\ rounds'[n] = rounds[n] /\ attempts'[n] >= attempts[n] /\ faults' >= faults
              /\ s \in InFlight(n) => s \in InFlight(n)'
           \/ /\ rounds'[n] = rounds[n] /\ attempts'[n] + faults' > attempts[n] + faults
           \/ /\ rounds'[n] <= rounds[n] + 1 /\ attempts'[n] = attempts[n] /\ faults' = faults
              /\ s \notin InFlight(n) /\ s \in InFlight(n)'
    PROVE  rounds'[n] <= attempts'[n] + Cardinality(InFlight(n)') + faults'
<1> DEFINE A == InFlight(n)
           B == InFlight(n)'
<1>1. A \in SUBSET Senders /\ B \in SUBSET Senders /\ A \ {s} \subseteq B
  BY DEF InFlight
<1>2. /\ rounds[n] \in Nat /\ rounds'[n] \in Nat /\ attempts[n] \in Nat /\ faults \in Nat
      /\ rounds[n] <= attempts[n] + Cardinality(A) + faults
  BY DEF IInv, TypeOK, Reaching, RoundsAccounted
<1> HIDE DEF A, B
<1>3. /\ Cardinality(A) \in Nat /\ Cardinality(B) \in Nat
      /\ Cardinality(A) <= Cardinality(B) + 1
      /\ (s \in A => s \in B) => Cardinality(A) <= Cardinality(B)
      /\ s \notin A /\ s \in B => Cardinality(A) + 1 <= Cardinality(B)
  BY <1>1, CountLess
<1>4. \/ /\ rounds'[n] = rounds[n] /\ attempts'[n] >= attempts[n] /\ faults' >= faults
         /\ s \in A => s \in B
      \/ /\ rounds'[n] = rounds[n] /\ attempts'[n] + faults' > attempts[n] + faults
      \/ /\ rounds'[n] <= rounds[n] + 1 /\ attempts'[n] = attempts[n] /\ faults' = faults
         /\ s \notin A /\ s \in B
  BY DEF A, B
<1>5. rounds'[n] <= attempts'[n] + Cardinality(B) + faults'
  BY <1>2, <1>3, <1>4
<1> QED  BY <1>5 DEF B

(* A sender between two records is pushing nothing. *)
LEMMA BetweenRecords ==
    ASSUME IInv, NEW s \in Senders, NEW n \in Notes, pc[s] = "batch"
    PROVE  s \in InFlight(n) <=> result[s][n] # "none"
  BY NotesAssumption DEF IInv, TypeOK, InFlight

LEMMA LoadRounds ==
    ASSUME IInv, Reaching, RoundsAccounted, IInv', Reaching',
           NEW s \in Senders, NEW n \in Notes, LoadRound(s, n), NEW m \in Notes
    PROVE  rounds'[m] <= attempts'[m] + Cardinality(InFlight(m)') + faults'
<1>1. /\ pc[s] = "batch" /\ result[s][n] = "none" /\ UNCHANGED <<attempts, faults>>
      /\ \/ result' = [result EXCEPT ![s][n] = "skipped"] /\ UNCHANGED cur /\ TokensOf(n) = {}
         \/ cur' = [cur EXCEPT ![s] = n] /\ UNCHANGED result
  BY DEF LoadRound, LoadTokens, Todo, rows, work
<1>2. /\ rounds'[m] <= rounds[m] + 1 /\ (m # n => rounds'[m] = rounds[m])
      /\ rounds' \in [Notes -> Nat] /\ attempts'[m] \in Nat /\ faults' \in Nat
      /\ attempts' = attempts /\ faults' = faults
      /\ attempts[m] \in Nat /\ faults \in Nat /\ rounds[m] \in Nat
  BY <1>1, PushesAssumption DEF LoadRound, IInv, TypeOK, Reaching
<1>3. \A t \in Senders \ {s} : cur'[t] = cur[t] /\ result'[t] = result[t]
  BY <1>1 DEF IInv, TypeOK
<1>4. InFlight(m) \ {s} \subseteq InFlight(m)'
  BY <1>3 DEF InFlight
<1>5. cur'[s] = n \/ result'[s][n] = "skipped"
  BY <1>1 DEF IInv, TypeOK
<1>6. s \notin InFlight(n) /\ s \in InFlight(n)'
  BY <1>1, <1>5, BetweenRecords DEF InFlight
<1>7. CASE m = n
  <2>1. /\ rounds'[m] <= rounds[m] + 1 /\ attempts'[m] = attempts[m] /\ faults' = faults
        /\ s \notin InFlight(m) /\ s \in InFlight(m)'
    BY <1>2, <1>6, <1>7
  <2> QED  BY <1>2, <1>4, <2>1, RoundBound
<1>8. CASE m # n
  <2>1. s \in InFlight(m) => result[s][m] # "none"
    BY <1>1, BetweenRecords
  <2>2. result'[s][m] = result[s][m]
    BY <1>1, <1>8 DEF IInv, TypeOK
  <2>3. s \in InFlight(m) => s \in InFlight(m)'
    BY <2>1, <2>2 DEF InFlight
  <2>4. rounds'[m] = rounds[m] /\ attempts'[m] >= attempts[m] /\ faults' >= faults
    BY <1>2, <1>8
  <2> QED  BY <1>2, <1>4, <2>3, <2>4, RoundBound
<1> QED  BY <1>7, <1>8

LEMMA EndRounds ==
    ASSUME IInv, Reaching, RoundsAccounted, IInv', Reaching', UNCHANGED rounds,
           NEW s \in Senders, Release(s), NEW n \in Notes,
           \/ faults' = faults + 1 /\ UNCHANGED attempts
           \/ Commit(s)
    PROVE  rounds'[n] <= attempts'[n] + Cardinality(InFlight(n)') + faults'
<1>1. /\ rounds' \in [Notes -> Nat] /\ attempts'[n] \in Nat /\ faults' \in Nat
      /\ rounds'[n] = rounds[n] /\ attempts[n] \in Nat /\ faults \in Nat
  BY DEF IInv, TypeOK, Reaching
<1>2. \A t \in Senders \ {s} : cur'[t] = cur[t] /\ result'[t] = result[t]
  BY DEF Release, IInv, TypeOK
<1>3. InFlight(n) \ {s} \subseteq InFlight(n)'
  BY <1>2 DEF InFlight
<1>4. CASE faults' = faults + 1 /\ UNCHANGED attempts
  BY <1>1, <1>3, <1>4, RoundBound
<1>5. CASE Commit(s) /\ n \in batch[s]
  <2>1. attempts'[n] = attempts[n] + 1 /\ faults' = faults
    BY <1>5, CommitRows DEF Commit
  <2> QED  BY <1>1, <1>3, <2>1, RoundBound
<1>6. CASE Commit(s) /\ n \notin batch[s]
  <2>1. attempts'[n] = attempts[n] /\ faults' = faults /\ pc[s] = "batch"
    BY <1>6, CommitRows DEF Commit
  <2>2. s \notin InFlight(n)
    BY <1>6, <2>1, BetweenRecords DEF IInv, HoldsOnlyBatch
  <2> QED  BY <1>1, <1>3, <2>1, <2>2, RoundBound
<1> QED  BY <1>4, <1>5, <1>6

LEMMA SettleRounds ==
    ASSUME IInv, Reaching, RoundsAccounted, IInv', Reaching', UNCHANGED rounds,
           NEW s \in Senders, Settle(s), NEW n \in Notes
    PROVE  rounds'[n] <= attempts'[n] + Cardinality(InFlight(n)') + faults'
<1>1. /\ cur[s] \in Notes /\ UNCHANGED <<attempts, faults>>
      /\ result' = [result EXCEPT ![s][cur[s]] = Verdict(s, cur[s])]
      /\ \A t \in Senders \ {s} : cur'[t] = cur[t]
  BY DEF Settle, rows, IInv, TypeOK
<1>2. /\ rounds' \in [Notes -> Nat] /\ attempts'[n] \in Nat /\ faults' \in Nat
      /\ rounds'[n] = rounds[n] /\ attempts'[n] = attempts[n] /\ faults' = faults
  BY <1>1 DEF IInv, TypeOK, Reaching
<1>3. \A t \in Senders, m \in Notes :
        result'[t][m] = IF t = s /\ m = cur[s] THEN Verdict(s, m) ELSE result[t][m]
  BY <1>1 DEF IInv, TypeOK
<1>4. Verdict(s, cur[s]) # "none"
  BY DEF Verdict
<1>5. InFlight(n) \ {s} \subseteq InFlight(n)'
  BY <1>1, <1>3 DEF InFlight
<1>6. s \in InFlight(n) => s \in InFlight(n)'
  BY <1>3, <1>4 DEF InFlight
<1> QED  BY <1>2, <1>5, <1>6, RoundBound

LEMMA RoundStep == ASSUME Poison = {}
                   PROVE  IInv /\ IInv' /\ RInv /\ RInv' /\ RoundsAccounted /\ [PNext]_pvars
                             => RoundsAccounted'
<1> SUFFICES ASSUME IInv, IInv', RInv, RInv', RoundsAccounted, [PNext]_pvars
             PROVE  RoundsAccounted'
  OBVIOUS
<1> USE DEF RInv
<1>1. CASE UNCHANGED <<attempts, faults, rounds, cur, result>>
  <2>1. \A n \in Notes : InFlight(n)' = InFlight(n)
    BY <1>1 DEF InFlight
  <2> QED  BY <1>1, <2>1 DEF RoundsAccounted
<1>2. CASE \/ UNCHANGED pvars
           \/ /\ UNCHANGED history
              /\ \/ Enqueue \/ Tick \/ \E n \in Notes : CreateNotification(n)
                 \/ \E u \in Users, d \in Devices : RegisterToken(u, d)
                 \/ \E r \in tokens : DeleteToken(r)
                 \/ \E s \in Senders : Select(s)
           \/ \E s \in Senders : \E r \in pending[s] : Accept(s, r) \/ Refuse(s, r)
  <2>1. UNCHANGED <<attempts, faults, rounds, cur, result>>
    BY <1>2 DEF pvars, vars, history, Enqueue, CreateNotification, Insert, Tick, RegisterToken,
                DeleteToken, Select, Refuse, PushRefused, Accept, PushAccepted, rows, trans, work
  <2> QED  BY <1>1, <2>1
<1>3. ASSUME NEW s \in Senders, NEW n \in Notes, LoadRound(s, n) PROVE RoundsAccounted'
  BY <1>3, LoadRounds DEF RoundsAccounted
<1>4. ASSUME NEW s \in Senders, Settle(s), UNCHANGED history PROVE RoundsAccounted'
  BY <1>4, SettleRounds DEF RoundsAccounted, history
<1>5. ASSUME NEW s \in Senders, Commit(s), UNCHANGED history PROVE RoundsAccounted'
  <2>1. Release(s) /\ UNCHANGED rounds
    BY <1>5 DEF Commit, history
  <2> QED  BY <1>5, <2>1, EndRounds DEF RoundsAccounted
<1>6. ASSUME NEW s \in Senders, Raise(s) \/ (Crash(s) /\ UNCHANGED history)
      PROVE  RoundsAccounted'
  <2>1. Release(s) /\ UNCHANGED <<rounds, attempts>> /\ faults' = faults + 1
    BY <1>6 DEF Raise, PushRaises, Crash, history, rows
  <2> QED  BY <2>1, EndRounds DEF RoundsAccounted
<1> QED  BY <1>2, <1>3, <1>4, <1>5, <1>6 DEF PNext, Quiet

(* Where every payload can be sent, pushes go unrecorded only while their  *)
(* batch is open or because a fault rolled it back: a commit counts an     *)
(* attempt for each record it pushed.                                      *)
THEOREM EveryRoundAccounted == ASSUME Poison = {} PROVE PSpec => []RoundsAccounted
<1>1. PInit => RoundsAccounted
  <2>1. \A n \in Notes : rounds[n] = 0 /\ attempts[n] = 0 /\ faults = 0 => 
           rounds[n] <= attempts[n] + Cardinality(InFlight(n)) + faults
    <3> SUFFICES ASSUME NEW n \in Notes PROVE Cardinality(InFlight(n)) \in Nat
      OBVIOUS
    <3> QED  BY CountLess DEF InFlight
  <2> QED  BY <2>1 DEF PInit, Init, RoundsAccounted
<1>2. IInv /\ IInv' /\ RInv /\ RInv' /\ RoundsAccounted /\ [PNext]_pvars => RoundsAccounted'
  BY RoundStep
<1> QED  BY <1>1, <1>2, PushesRefine, Invariance, ReachInit, ReachStep, PTL DEF PSpec

(* A notification that a sender works on has an attempt left, and no other *)
(* sender works on it.                                                     *)
LEMMA InFlightHasBudget ==
    ASSUME IInv, NEW n \in Notes, NEW b \in Nat, \A s \in Senders : MaxAttempts[s] <= b
    PROVE  Cardinality(InFlight(n)) \in Nat /\ attempts[n] + Cardinality(InFlight(n)) <= b
<1>1. \A s \in InFlight(n) : n \in batch[s]
  BY NotesAssumption DEF IInv, TypeOK, InFlight, SendsOwnBatch, HoldsOnlyBatch
<1>2. \A s, t \in InFlight(n) : s = t
  BY <1>1 DEF IInv, ExclusiveProcessing, InFlight
<1>3. attempts[n] \in Nat
  BY DEF IInv, TypeOK
<1>4. CASE InFlight(n) = {}
  <2>1. Cardinality(InFlight(n)) = 0
    BY <1>4, FS_EmptySet
  <2>2. attempts[n] <= b
    <3>1. CASE attempts[n] = 0
      BY <3>1
    <3>2. CASE attempts[n] > 0
      <4>1. PICK s \in Senders : IF deliveryStatus[n] = "failed" THEN attempts[n] < MaxAttempts[s]
                                                                 ELSE attempts[n] <= MaxAttempts[s]
        BY <3>2 DEF IInv, AttemptsWithinBudget
      <4>2. MaxAttempts[s] \in Nat /\ MaxAttempts[s] <= b
        BY SendersAssumption
      <4> QED  BY <1>3, <4>1, <4>2
    <3> QED  BY <1>3, <3>1, <3>2
  <2> QED  BY <1>3, <2>1, <2>2
<1>5. CASE InFlight(n) # {}
  <2>1. PICK s \in Senders : s \in InFlight(n)
    BY <1>5 DEF InFlight
  <2>2. InFlight(n) = {s}
    BY <1>2, <2>1
  <2>3. Cardinality({s}) = 1
    BY FS_Singleton
  <2>4. MaxAttempts[s] \in Nat \ {0} /\ MaxAttempts[s] <= b
    BY SendersAssumption
  <2>5. attempts[n] < MaxAttempts[s]
    BY <1>1, <2>1, <2>4 DEF IInv, StillEligible, Unattempted
  <2> QED  BY <1>3, <2>2, <2>3, <2>4, <2>5
<1> QED  BY <1>4, <1>5

(* However many senders there are, a notification is pushed no more often  *)
(* than the largest max_attempts, and once more for each crash or timeout  *)
(* that rolled a batch back.                                               *)
THEOREM PushesBounded ==
    ASSUME Poison = {}, NEW b \in Nat, \A s \in Senders : MaxAttempts[s] <= b
    PROVE  PSpec => [](\A n \in Notes : rounds[n] <= b + faults)
<1>1. ASSUME IInv, RInv, RoundsAccounted, NEW n \in Notes PROVE rounds[n] <= b + faults
  <2>1. rounds[n] \in Nat /\ faults \in Nat /\ attempts[n] \in Nat
    BY <1>1 DEF IInv, TypeOK, RInv, Reaching
  <2>2. rounds[n] <= attempts[n] + Cardinality(InFlight(n)) + faults
    BY <1>1 DEF RoundsAccounted
  <2>3. Cardinality(InFlight(n)) \in Nat /\ attempts[n] + Cardinality(InFlight(n)) <= b
    BY <1>1, InFlightHasBudget
  <2> QED  BY <2>1, <2>2, <2>3
<1>2. IInv /\ RInv /\ RoundsAccounted => \A n \in Notes : rounds[n] <= b + faults
  BY <1>1
<1> QED  BY <1>2, PushesRefine, Invariance, ReachInit, ReachStep, EveryRoundAccounted, PTL DEF PSpec

-----------------------------------------------------------------------------
(* The delivery of n has ended: no later batch selects its row. *)
Finished(n) == deliveryStatus[n] \in D!FinalStatuses

(* Once a delivery has ended nobody pushes the notification again, and its *)
(* row keeps its outcome, whatever other senders had selected, and whoever *)
(* crashes (process_outbox selects queued rows and failed ones with        *)
(* attempts left, FOR UPDATE SKIP LOCKED).                                 *)
FinishedIsOver ==
    [][\A n \in Notes : Finished(n) =>
         /\ deliveryStatus'[n] = deliveryStatus[n] /\ attempts'[n] = attempts[n]
         /\ rounds'[n] = rounds[n] /\ (n \in reached' <=> n \in reached)]_pvars

LEMMA BatchIsUnfinished ==
    ASSUME IInv, NEW s \in Senders, NEW n \in batch[s] PROVE ~Finished(n)
  BY DEF IInv, StillEligible, Finished, D!FinalStatuses

(* No open batch has a finished notification (StillEligible), so neither a *)
(* push nor a commit is of one.                                            *)
THEOREM FinishedStaysOver == PSpec => FinishedIsOver
<1>1. ASSUME IInv, RInv, PNext, NEW n \in Notes, Finished(n)
      PROVE  /\ deliveryStatus'[n] = deliveryStatus[n] /\ attempts'[n] = attempts[n]
             /\ rounds'[n] = rounds[n] /\ (n \in reached' <=> n \in reached)
  <2>1. \A s \in Senders : n \notin batch[s] /\ (pc[s] = "push" => cur[s] # n)
    BY <1>1, BatchIsUnfinished DEF IInv, SendsOwnBatch
  <2>2. CASE UNCHANGED <<deliveryStatus, attempts, rounds, reached>>
    BY <2>2
  <2>3. ASSUME NEW N \in SUBSET (Notes \ Present), NEW st, Insert(N, st), UNCHANGED history
        PROVE  deliveryStatus'[n] = deliveryStatus[n] /\ attempts'[n] = attempts[n]
    BY <1>1, <2>3 DEF Insert, Present, Finished, D!FinalStatuses
  <2>4. ASSUME NEW s \in Senders, NEW m \in Notes, LoadRound(s, m)
        PROVE  rounds'[n] = rounds[n] /\ UNCHANGED <<deliveryStatus, attempts, reached>>
    <3>1. m # n
      BY <2>1, <2>4 DEF LoadRound, LoadTokens, Todo
    <3> QED  BY <1>1, <2>4, <3>1 DEF LoadRound, LoadTokens, rows, RInv, Reaching
  <2>5. ASSUME NEW s \in Senders, NEW r \in pending[s], Accept(s, r)
        PROVE  (n \in reached' <=> n \in reached) /\ UNCHANGED <<deliveryStatus, attempts, rounds>>
    BY <2>1, <2>5 DEF Accept, PushAccepted, Pushing, Reached, rows
  <2>6. ASSUME NEW s \in Senders, Raise(s)
        PROVE  (n \in reached' <=> n \in reached) /\ UNCHANGED <<deliveryStatus, attempts, rounds>>
    BY <2>1, <2>6 DEF Raise, PushRaises, Reached, rows
  <2>7. ASSUME NEW s \in Senders, Commit(s), UNCHANGED history
        PROVE  deliveryStatus'[n] = deliveryStatus[n] /\ attempts'[n] = attempts[n]
    BY <1>1, <2>1, <2>7, CommitRows
  <2>8. CASE UNCHANGED history /\ (Enqueue \/ \E m \in Notes : CreateNotification(m))
    <3>1. PICK N \in SUBSET (Notes \ Present), st \in Statuses : Insert(N, st)
      BY <2>8, NotesAssumption DEF Enqueue, CreateNotification, Statuses
    <3> QED  BY <2>3, <2>8, <3>1 DEF history
  <2>9. CASE UNCHANGED history /\ \/ Tick
                                  \/ \E u \in Users, d \in Devices : RegisterToken(u, d)
                                  \/ \E r \in tokens : DeleteToken(r)
                                  \/ \E s \in Senders : Select(s) \/ Settle(s) \/ Crash(s)
    BY <2>2, <2>9 DEF history, Tick, RegisterToken, DeleteToken, Select, Settle, Crash, rows
  <2>10. ASSUME NEW s \in Senders, NEW r \in pending[s], Refuse(s, r)
         PROVE  UNCHANGED <<deliveryStatus, attempts, rounds, reached>>
    BY <2>10 DEF Refuse, PushRefused, rows
  <2> QED  BY <1>1, <2>4, <2>5, <2>6, <2>7, <2>8, <2>9, <2>10 DEF PNext, Quiet, history
<1>2. IInv /\ RInv /\ [PNext]_pvars =>
        [\A n \in Notes : Finished(n) =>
           /\ deliveryStatus'[n] = deliveryStatus[n] /\ attempts'[n] = attempts[n]
           /\ rounds'[n] = rounds[n] /\ (n \in reached' <=> n \in reached)]_pvars
  BY <1>1
<1> QED  BY <1>2, PushesRefine, Invariance, ReachInit, ReachStep, PTL DEF PSpec, FinishedIsOver

===============================================================================
