-------------------------- MODULE ApiKeyStoreProofs -------------------------
(***************************************************************************)
(* Proofs about ApiKeyStore, for any callers and any key identifiers.      *)
(***************************************************************************)
EXTENDS ApiKeyStore, TLAPS

LEMMA EmptyIsDocument == Empty \in Documents
BY DEF Empty, Documents, Statuses

\* Changing one key's status makes another document.
LEMMA ChangedIsDocument ==
    ASSUME NEW d \in Documents, NEW k, NEW s \in Statuses
    PROVE  [d EXCEPT ![k] = s] \in Documents
BY DEF Documents

-----------------------------------------------------------------------------
\* One lemma for each part of the invariant: no action of a caller breaks it.

\* Every variable keeps its type.
LEMMA TypeStep ==
    ASSUME IInv, NEW c \in Callers, Call(c) \/ Operation(c) \/ Crash(c)
    PROVE  TypeOK'
<1>1. CASE Call(c)
  BY <1>1, EmptyIsDocument DEF Call, Go, IInv, TypeOK, Statuses, Phases, Critical,
     Calls, Answers, Issuing, Revoking
<1>2. CASE Acquire(c)
  BY <1>2 DEF Acquire, Go, IInv, TypeOK, Phases, Critical
<1>3. CASE LockFails(c)
  BY <1>3 DEF LockFails, Go, IInv, TypeOK, Phases, Answers
<1>4. CASE ReadFails(c)
  BY <1>4, EmptyIsDocument DEF ReadFails, Leave, Go, IInv, TypeOK, Phases, Answers
<1>5. CASE ReadToAuthenticate(c)
  BY <1>5 DEF ReadToAuthenticate, Go, IInv, TypeOK, Phases
<1>6. CASE Decide(c)
  BY <1>6, EmptyIsDocument DEF Decide, Go, IInv, TypeOK, Phases, Answers
<1>7. CASE AddKey(c)
  <2>1. file \in Documents /\ "active" \in Statuses
    BY <1>7 DEF IInv, TypeOK, AddKey, Statuses
  <2>2. PICK k \in KeyIds :
            /\ document' = [document EXCEPT ![c] = [file EXCEPT ![k] = "active"]]
            /\ call' = [call EXCEPT ![c] = [name |-> call[c].name, key |-> k]]
    BY <1>7 DEF AddKey
  <2>3. [file EXCEPT ![k] = "active"] \in Documents
    BY <2>1, ChangedIsDocument
  <2>4. document' \in [Callers -> Documents]
    BY <2>2, <2>3 DEF IInv, TypeOK
  <2>5. call' \in [Callers -> Calls]
    BY <2>2 DEF IInv, TypeOK, Calls
  <2>. QED
    BY <1>7, <2>4, <2>5 DEF AddKey, Go, IInv, TypeOK, Phases, Critical
<1>8. CASE RevokeKey(c)
  <2>1. file \in Documents /\ "revoked" \in Statuses
    BY <1>8 DEF IInv, TypeOK, RevokeKey, Statuses
  <2>2. [file EXCEPT ![call[c].key] = "revoked"] \in Documents
    BY <2>1, ChangedIsDocument
  <2>3. document' \in [Callers -> Documents]
    BY <1>8, <2>2, EmptyIsDocument DEF RevokeKey, Leave, IInv, TypeOK
  <2>4. answer' \in [Callers -> Answers]
    BY <1>8 DEF RevokeKey, Leave, IInv, TypeOK, Answers
  <2>. QED
    BY <1>8, <2>3, <2>4 DEF RevokeKey, Leave, Go, IInv, TypeOK, Phases, Critical
<1>9. CASE OpenTemp(c)
  BY <1>9 DEF OpenTemp, Go, IInv, TypeOK, Phases, Critical
<1>10. CASE Flush(c)
  BY <1>10 DEF Flush, Go, IInv, TypeOK, Phases, Critical
<1>11. CASE Replace(c)
  <2>1. file' \in Documents
    BY <1>11 DEF Replace, IInv, TypeOK, CopyUpToDate
  <2>. QED
    BY <1>11, <2>1 DEF Replace, Go, IInv, TypeOK, Phases, Critical
<1>12. CASE WriteFails(c)
  BY <1>12, EmptyIsDocument DEF WriteFails, Leave, Go, IInv, TypeOK, Phases, Answers
<1>13. CASE Return(c)
  BY <1>13, EmptyIsDocument DEF Return, Leave, Go, IInv, TypeOK, Phases, Answers
<1>14. CASE Protect(c)
  BY <1>14 DEF Protect, Go, IInv, TypeOK, Phases
<1>15. CASE ProtectFails(c)
  BY <1>15 DEF ProtectFails, Go, IInv, TypeOK, Phases, Calls, Answers, Revoking
<1>16. CASE Crash(c)
  BY <1>16, EmptyIsDocument DEF Crash, Go, IInv, TypeOK, NoCall, Phases, Calls, Answers
<1>. QED
  BY <1>1, <1>2, <1>3, <1>4, <1>5, <1>6, <1>7, <1>8, <1>9, <1>10, <1>11, <1>12, <1>13,
     <1>14, <1>15, <1>16 DEF Operation

\* The file is only ever replaced by a whole document.
LEMMA ReadableStep ==
    ASSUME IInv, NEW c \in Callers, Call(c) \/ Operation(c) \/ Crash(c)
    PROVE  StoreReadable'
<1>1. CASE Call(c)
  BY <1>1 DEF Call, Go, IInv, TypeOK, StoreReadable
<1>2. CASE Acquire(c)
  BY <1>2 DEF Acquire, Go, IInv, TypeOK, StoreReadable
<1>3. CASE LockFails(c)
  BY <1>3 DEF LockFails, Go, IInv, TypeOK, StoreReadable
<1>4. CASE ReadFails(c)
  BY <1>4 DEF ReadFails, Leave, Go, IInv, TypeOK, StoreReadable
<1>5. CASE ReadToAuthenticate(c)
  BY <1>5 DEF ReadToAuthenticate, Go, IInv, TypeOK, StoreReadable
<1>6. CASE Decide(c)
  BY <1>6 DEF Decide, Go, IInv, TypeOK, StoreReadable
<1>7. CASE AddKey(c)
  BY <1>7 DEF AddKey, Go, IInv, TypeOK, StoreReadable
<1>8. CASE RevokeKey(c)
  BY <1>8 DEF RevokeKey, Leave, Go, IInv, TypeOK, StoreReadable
<1>9. CASE OpenTemp(c)
  BY <1>9 DEF OpenTemp, Go, IInv, TypeOK, StoreReadable
<1>10. CASE Flush(c)
  BY <1>10 DEF Flush, Go, IInv, TypeOK, StoreReadable
<1>11. CASE Replace(c)
  BY <1>11, StoreAssumption DEF Replace, Go, IInv, TypeOK, StoreReadable, CopyUpToDate
<1>12. CASE WriteFails(c)
  BY <1>12 DEF WriteFails, Leave, Go, IInv, TypeOK, StoreReadable
<1>13. CASE Return(c)
  BY <1>13 DEF Return, Leave, Go, IInv, TypeOK, StoreReadable
<1>14. CASE Protect(c)
  BY <1>14 DEF Protect, Go, IInv, TypeOK, StoreReadable
<1>15. CASE ProtectFails(c)
  BY <1>15 DEF ProtectFails, Go, IInv, TypeOK, StoreReadable
<1>16. CASE Crash(c)
  BY <1>16 DEF Crash, Go, IInv, TypeOK, StoreReadable
<1>. QED
  BY <1>1, <1>2, <1>3, <1>4, <1>5, <1>6, <1>7, <1>8, <1>9, <1>10, <1>11, <1>12, <1>13,
     <1>14, <1>15, <1>16 DEF Operation

\* Every way into and out of the locked block takes the lock along.
LEMMA LockStep ==
    ASSUME IInv, NEW c \in Callers, Call(c) \/ Operation(c) \/ Crash(c)
    PROVE  LockOwned'
<1>1. CASE Call(c)
  BY <1>1 DEF Call, Go, IInv, TypeOK, LockOwned, Critical
<1>2. CASE Acquire(c)
  BY <1>2, StoreAssumption DEF Acquire, Go, IInv, TypeOK, LockOwned, Critical
<1>3. CASE LockFails(c)
  BY <1>3 DEF LockFails, Go, IInv, TypeOK, LockOwned, Critical
<1>4. CASE ReadFails(c)
  BY <1>4, StoreAssumption DEF ReadFails, Leave, Go, IInv, TypeOK, LockOwned, Critical
<1>5. CASE ReadToAuthenticate(c)
  BY <1>5, StoreAssumption DEF ReadToAuthenticate, Go, IInv, TypeOK, LockOwned, Critical
<1>6. CASE Decide(c)
  BY <1>6 DEF Decide, Go, IInv, TypeOK, LockOwned, Critical
<1>7. CASE AddKey(c)
  BY <1>7 DEF AddKey, Go, IInv, TypeOK, LockOwned, Critical
<1>8. CASE RevokeKey(c)
  BY <1>8, StoreAssumption DEF RevokeKey, Leave, Go, IInv, TypeOK, LockOwned, Critical
<1>9. CASE OpenTemp(c)
  BY <1>9 DEF OpenTemp, Go, IInv, TypeOK, LockOwned, Critical
<1>10. CASE Flush(c)
  BY <1>10 DEF Flush, Go, IInv, TypeOK, LockOwned, Critical
<1>11. CASE Replace(c)
  BY <1>11 DEF Replace, Go, IInv, TypeOK, LockOwned, Critical
<1>12. CASE WriteFails(c)
  BY <1>12, StoreAssumption DEF WriteFails, Leave, Go, IInv, TypeOK, LockOwned, Critical
<1>13. CASE Return(c)
  BY <1>13, StoreAssumption DEF Return, Leave, Go, IInv, TypeOK, LockOwned, Critical
<1>14. CASE Protect(c)
  BY <1>14 DEF Protect, Go, IInv, TypeOK, LockOwned, Critical
<1>15. CASE ProtectFails(c)
  BY <1>15 DEF ProtectFails, Go, IInv, TypeOK, LockOwned, Critical
<1>16. CASE Crash(c)
  BY <1>16, StoreAssumption DEF Crash, Go, IInv, TypeOK, LockOwned, Critical
<1>. QED
  BY <1>1, <1>2, <1>3, <1>4, <1>5, <1>6, <1>7, <1>8, <1>9, <1>10, <1>11, <1>12, <1>13,
     <1>14, <1>15, <1>16 DEF Operation

\* While a caller is in the locked block the file changes only by its hand.
LEMMA CopyStep ==
    ASSUME IInv, NEW c \in Callers, Call(c) \/ Operation(c) \/ Crash(c)
    PROVE  CopyUpToDate'
<1>1. CASE Call(c)
  BY <1>1 DEF Call, Go, IInv, TypeOK, CopyUpToDate
<1>2. CASE Acquire(c)
  BY <1>2 DEF Acquire, Go, IInv, TypeOK, CopyUpToDate
<1>3. CASE LockFails(c)
  BY <1>3 DEF LockFails, Go, IInv, TypeOK, CopyUpToDate
<1>4. CASE ReadFails(c)
  BY <1>4 DEF ReadFails, Leave, Go, IInv, TypeOK, CopyUpToDate
<1>5. CASE ReadToAuthenticate(c)
  BY <1>5 DEF ReadToAuthenticate, Go, IInv, TypeOK, CopyUpToDate
<1>6. CASE Decide(c)
  BY <1>6 DEF Decide, Go, IInv, TypeOK, CopyUpToDate
<1>7. CASE AddKey(c)
  BY <1>7 DEF AddKey, Go, IInv, TypeOK, CopyUpToDate
<1>8. CASE RevokeKey(c)
  <2>1. \A d \in Callers : phase[d] \in Critical => d = c
    BY <1>8 DEF RevokeKey, IInv, LockOwned, Critical
  <2>2. CASE file[call[c].key] = "active"
    BY <1>8, <2>1, <2>2 DEF RevokeKey, Go, IInv, TypeOK, CopyUpToDate
  <2>3. CASE ~(file[call[c].key] = "active")
    BY <1>8, <2>1, <2>3 DEF RevokeKey, Leave, Go, IInv, TypeOK, CopyUpToDate, Critical
  <2>. QED
    BY <2>2, <2>3
<1>9. CASE OpenTemp(c)
  BY <1>9 DEF OpenTemp, Go, IInv, TypeOK, CopyUpToDate
<1>10. CASE Flush(c)
  BY <1>10 DEF Flush, Go, IInv, TypeOK, CopyUpToDate
<1>11. CASE Replace(c)
  BY <1>11 DEF Replace, Go, IInv, TypeOK, LockOwned, CopyUpToDate, Critical
<1>12. CASE WriteFails(c)
  BY <1>12 DEF WriteFails, Leave, Go, IInv, TypeOK, CopyUpToDate
<1>13. CASE Return(c)
  BY <1>13 DEF Return, Leave, Go, IInv, TypeOK, CopyUpToDate
<1>14. CASE Protect(c)
  BY <1>14 DEF Protect, Go, IInv, TypeOK, CopyUpToDate
<1>15. CASE ProtectFails(c)
  BY <1>15 DEF ProtectFails, Go, IInv, TypeOK, CopyUpToDate
<1>16. CASE Crash(c)
  BY <1>16 DEF Crash, Go, IInv, TypeOK, CopyUpToDate
<1>. QED
  BY <1>1, <1>2, <1>3, <1>4, <1>5, <1>6, <1>7, <1>8, <1>9, <1>10, <1>11, <1>12, <1>13,
     <1>14, <1>15, <1>16 DEF Operation

\* The phases keep to the operation.
LEMMA PhaseStep ==
    ASSUME IInv, NEW c \in Callers, Call(c) \/ Operation(c) \/ Crash(c)
    PROVE  PhaseFitsCall'
<1>1. CASE Call(c)
  BY <1>1 DEF Call, Go, IInv, TypeOK, PhaseFitsCall
<1>2. CASE Acquire(c)
  BY <1>2 DEF Acquire, Go, IInv, TypeOK, PhaseFitsCall
<1>3. CASE LockFails(c)
  BY <1>3 DEF LockFails, Go, IInv, TypeOK, PhaseFitsCall
<1>4. CASE ReadFails(c)
  BY <1>4 DEF ReadFails, Leave, Go, IInv, TypeOK, PhaseFitsCall
<1>5. CASE ReadToAuthenticate(c)
  BY <1>5 DEF ReadToAuthenticate, Go, IInv, TypeOK, PhaseFitsCall
<1>6. CASE Decide(c)
  BY <1>6 DEF Decide, Go, IInv, TypeOK, PhaseFitsCall
<1>7. CASE AddKey(c)
  BY <1>7 DEF AddKey, Go, IInv, TypeOK, PhaseFitsCall
<1>8. CASE RevokeKey(c)
  BY <1>8 DEF RevokeKey, Leave, Go, IInv, TypeOK, PhaseFitsCall
<1>9. CASE OpenTemp(c)
  BY <1>9 DEF OpenTemp, Go, IInv, TypeOK, PhaseFitsCall
<1>10. CASE Flush(c)
  BY <1>10 DEF Flush, Go, IInv, TypeOK, PhaseFitsCall
<1>11. CASE Replace(c)
  BY <1>11 DEF Replace, Go, IInv, TypeOK, CopyUpToDate, PhaseFitsCall, Issuing, Revoking
<1>12. CASE WriteFails(c)
  BY <1>12 DEF WriteFails, Leave, Go, IInv, TypeOK, PhaseFitsCall
<1>13. CASE Return(c)
  BY <1>13 DEF Return, Leave, Go, IInv, TypeOK, PhaseFitsCall, Revoking
<1>14. CASE Protect(c)
  BY <1>14 DEF Protect, Go, IInv, TypeOK, PhaseFitsCall
<1>15. CASE ProtectFails(c)
  BY <1>15 DEF ProtectFails, Go, IInv, TypeOK, PhaseFitsCall
<1>16. CASE Crash(c)
  BY <1>16 DEF Crash, Go, IInv, TypeOK, PhaseFitsCall
<1>. QED
  BY <1>1, <1>2, <1>3, <1>4, <1>5, <1>6, <1>7, <1>8, <1>9, <1>10, <1>11, <1>12, <1>13,
     <1>14, <1>15, <1>16 DEF Operation

-----------------------------------------------------------------------------
\* The invariant holds of every behaviour.

LEMMA InitIInv == Init => IInv
<1>1. Init => TypeOK
  BY EmptyIsDocument DEF Init, TypeOK, NoCall, Calls, Phases, Answers
<1>2. Init => StoreReadable /\ LockOwned /\ CopyUpToDate /\ PhaseFitsCall
  BY EmptyIsDocument, StoreAssumption
     DEF Init, StoreReadable, LockOwned, CopyUpToDate, PhaseFitsCall, Critical
<1>. QED
  BY <1>1, <1>2 DEF IInv

LEMMA NextIInv == IInv /\ [Next]_vars => IInv'
<1>. SUFFICES ASSUME IInv, [Next]_vars
              PROVE  IInv'
  OBVIOUS
<1>1. CASE Next
  BY <1>1, TypeStep, ReadableStep, LockStep, CopyStep, PhaseStep DEF Next, IInv
<1>2. CASE UNCHANGED vars
  BY <1>2 DEF vars, IInv, TypeOK, StoreReadable, LockOwned, CopyUpToDate, PhaseFitsCall
<1>. QED
  BY <1>1, <1>2

\* Types, a whole file, one lock holder and up-to-date copies, for any number
\* of threads and CLI processes dying anywhere.
THEOREM Invariance == Spec => []IInv
BY InitIInv, NextIInv, PTL DEF Spec

\* The file, its temporaries, the lock and what each caller has read keep their
\* types along every failure and death (_locked, atomic_write).
THEOREM TypeCorrect == Spec => []TypeOK
<1>1. IInv => TypeOK
  BY DEF IInv
<1>. QED
  BY <1>1, Invariance, PTL

\* The key file is a complete document at every instant (atomic_write,
\* _read_document): nobody's death or failure leaves half a store behind.
THEOREM Readable == Spec => []StoreReadable
<1>1. IInv => StoreReadable
  BY DEF IInv
<1>. QED
  BY <1>1, Invariance, PTL

\* One holder of the lock at most, and none left behind (_locked).
THEOREM MutualExclusion == Spec => []LockOwned
<1>1. IInv => LockOwned
  BY DEF IInv
<1>. QED
  BY <1>1, Invariance, PTL

(***************************************************************************)
(* The key file under its lock implements KeyRegistry: each operation has  *)
(* one step that the registry sees.                                        *)
(***************************************************************************)
\* The registry's view of all the calls.
Calling == [c \in Callers |-> Progress(c)]

-----------------------------------------------------------------------------
\* What the registry sees of an operation in each phase.

LEMMA Unseen ==
    ASSUME NEW p \in {"waiting", "locked", "encoded", "writing", "flushed"},
           NEW l, NEW d, NEW a
    PROVE  EffectOf(p, l, d, a) = "pending"
BY DEF EffectOf

LEMMA Answered ==
    ASSUME NEW p \in {"done", "protecting"}, NEW l, NEW d, NEW a
    PROVE  EffectOf(p, l, d, a) = a
BY DEF EffectOf

LEMMA Written ==
    ASSUME NEW l, NEW d, NEW a
    PROVE  EffectOf("replaced", l, d, a) =
               IF l.name \in Issuing THEN "issued" ELSE "revoked"
BY DEF EffectOf

LEMMA Deciding ==
    ASSUME NEW l, NEW d, NEW a
    PROVE  EffectOf("deciding", l, d, a) =
               IF d[l.key] = "active" THEN "accepted" ELSE "rejected"
BY DEF EffectOf

LEMMA Idle ==
    ASSUME NEW l, NEW d, NEW a
    PROVE  EffectOf("idle", l, d, a) = "none"
BY DEF EffectOf

\* A step of one caller is one change in the registry's view.
LEMMA OneCall ==
    ASSUME IInv, NEW c \in Callers, Call(c) \/ Operation(c) \/ Crash(c)
    PROVE  Calling' = [Calling EXCEPT ![c] = Progress(c)']
<1>1. /\ \E p : phase' = [phase EXCEPT ![c] = p]
      /\ \E l : call' = [call EXCEPT ![c] = l]
      /\ \E d : document' = [document EXCEPT ![c] = d]
      /\ \E a : answer' = [answer EXCEPT ![c] = a]
  <2>1. /\ phase = [phase EXCEPT ![c] = phase[c]]
        /\ call = [call EXCEPT ![c] = call[c]]
        /\ document = [document EXCEPT ![c] = document[c]]
        /\ answer = [answer EXCEPT ![c] = answer[c]]
    BY DEF IInv, TypeOK
  <2>. QED
    BY <2>1 DEF Operation, Call, Acquire, LockFails, ReadFails, ReadToAuthenticate, Decide,
                AddKey, RevokeKey, OpenTemp, Flush, Replace, WriteFails, Return, Protect,
                ProtectFails, Crash, Leave, Go
<1>2. ASSUME NEW d \in Callers, d # c
      PROVE  /\ phase'[d] = phase[d]
             /\ call'[d] = call[d]
             /\ document'[d] = document[d]
             /\ answer'[d] = answer[d]
  BY <1>1, <1>2 DEF IInv, TypeOK
<1>3. \A d \in Callers : d # c => Progress(d)' = Progress(d)
  BY <1>2 DEF Progress
<1>. QED
  BY <1>3 DEF Calling

-----------------------------------------------------------------------------
\* Each action of the store as the registry sees it.

LEMMA InvokeStep ==
    ASSUME IInv, NEW c \in Callers, Call(c)
    PROVE  Registry!Invoke(c)
<1>1. Calling' = [Calling EXCEPT ![c] = Progress(c)']
  BY OneCall
<1>2. phase'[c] = "waiting" /\ file' = file
  BY DEF Call, Go, IInv, TypeOK
<1>3. Calling[c].effect # "pending"
  BY Idle, Answered DEF Call, Calling, Progress, ProgressOf, IInv, TypeOK, Answers, PhaseFitsCall
<1>4. \/ \E n \in Issuing :
            Progress(c)' = [name |-> n, key |-> NoKey, effect |-> "pending"]
      \/ \E n \in Revoking \cup {"authenticate"}, k \in KeyIds :
            Progress(c)' = [name |-> n, key |-> k, effect |-> "pending"]
  <2>1. EffectOf(phase[c], call[c], document[c], answer[c])' = "pending"
    BY <1>2, Unseen
  <2>. QED
    BY <2>1 DEF Call, Progress, ProgressOf, IInv, TypeOK, Issuing, Revoking
<1>. QED
  BY <1>1, <1>2, <1>3, <1>4
     DEF Registry!Invoke, Calling, Registry!Issuing, Registry!Revoking, Issuing, Revoking

\* Getting the lock, reading, changing the copy, writing the temporary file and
\* leaving the block are nobody's business.
LEMMA SilentStep ==
    ASSUME IInv, NEW c \in Callers,
           \/ Acquire(c) \/ Decide(c) \/ AddKey(c) \/ OpenTemp(c) \/ Flush(c)
           \/ Return(c) \/ Protect(c)
           \/ RevokeKey(c) /\ phase'[c] = "encoded"
    PROVE  UNCHANGED Registry!vars
<1>1. Calling' = [Calling EXCEPT ![c] = Progress(c)']
  BY OneCall DEF Operation
<1>2. file' = file
  BY DEF Acquire, Decide, AddKey, OpenTemp, Flush, Return, Protect, RevokeKey
<1>3. Progress(c)' = Progress(c)
  <2>1. CASE Acquire(c) \/ OpenTemp(c) \/ Flush(c)
    <3>1. EffectOf(phase[c], call[c], document[c], answer[c]) = "pending"
      BY <2>1, Unseen DEF Acquire, OpenTemp, Flush
    <3>2. EffectOf(phase[c], call[c], document[c], answer[c])' = "pending"
      BY <2>1, Unseen DEF Acquire, OpenTemp, Flush, Go, IInv, TypeOK
    <3>. QED
      BY <2>1, <3>1, <3>2 DEF Acquire, OpenTemp, Flush, Progress, ProgressOf
  <2>2. CASE AddKey(c)
    <3>1. EffectOf(phase[c], call[c], document[c], answer[c]) = "pending"
      BY <2>2, Unseen DEF AddKey
    <3>2. EffectOf(phase[c], call[c], document[c], answer[c])' = "pending"
      BY <2>2, Unseen DEF AddKey, Go, IInv, TypeOK
    <3>3. call'[c].name = call[c].name /\ call[c].name \in Issuing
      BY <2>2 DEF AddKey, IInv, TypeOK
    <3>. QED
      BY <3>1, <3>2, <3>3 DEF Progress, ProgressOf
  <2>3. CASE RevokeKey(c) /\ phase'[c] = "encoded"
    <3>1. EffectOf(phase[c], call[c], document[c], answer[c]) = "pending"
      BY <2>3, Unseen DEF RevokeKey
    <3>2. EffectOf(phase[c], call[c], document[c], answer[c])' = "pending"
      BY <2>3, Unseen
    <3>. QED
      BY <2>3, <3>1, <3>2 DEF RevokeKey, Progress, ProgressOf
  <2>4. CASE Decide(c)
    <3>1. phase[c] = "deciding" /\ phase'[c] = "done" /\ call' = call
      BY <2>4 DEF Decide, Go, IInv, TypeOK
    <3>2. EffectOf(phase[c], call[c], document[c], answer[c]) = answer'[c]
      BY <2>4, <3>1, Deciding DEF Decide, IInv, TypeOK
    <3>3. EffectOf(phase[c], call[c], document[c], answer[c])' = answer'[c]
      BY <3>1, Answered
    <3>. QED
      BY <3>1, <3>2, <3>3 DEF Progress, ProgressOf
  <2>5. CASE Return(c)
    <3>1. phase[c] = "replaced" /\ phase'[c] \in {"done", "protecting"} /\ call' = call
      BY <2>5 DEF Return, Leave, Go, IInv, TypeOK
    <3>2. EffectOf(phase[c], call[c], document[c], answer[c]) = answer'[c]
      BY <2>5, <3>1, Written DEF Return, Leave, IInv, TypeOK
    <3>3. EffectOf(phase[c], call[c], document[c], answer[c])' = answer'[c]
      BY <3>1, Answered
    <3>. QED
      BY <3>1, <3>2, <3>3 DEF Progress, ProgressOf
  <2>6. CASE Protect(c)
    <3>1. /\ phase[c] = "protecting" /\ phase'[c] = "done"
          /\ call' = call /\ answer' = answer
      BY <2>6 DEF Protect, Go, IInv, TypeOK
    <3>2. EffectOf(phase[c], call[c], document[c], answer[c]) = answer[c]
      BY <3>1, Answered
    <3>3. EffectOf(phase[c], call[c], document[c], answer[c])' = answer[c]
      BY <3>1, Answered
    <3>. QED
      BY <3>1, <3>2, <3>3 DEF Progress, ProgressOf
  <2>. QED
    BY <2>1, <2>2, <2>3, <2>4, <2>5, <2>6
<1>4. Calling' = Calling
  BY <1>1, <1>3 DEF Calling
<1>. QED
  BY <1>2, <1>4 DEF Registry!vars, Calling

\* An operation that could not lock, read or write has failed.
LEMMA FailStep ==
    ASSUME IInv, NEW c \in Callers, LockFails(c) \/ ReadFails(c) \/ WriteFails(c)
    PROVE  Registry!Fail(c)
<1>1. Calling' = [Calling EXCEPT ![c] = Progress(c)']
  BY OneCall DEF Operation
<1>2. /\ file' = file /\ call' = call
      /\ phase'[c] = "done" /\ answer'[c] = "error"
  BY DEF LockFails, ReadFails, WriteFails, Leave, Go, IInv, TypeOK
<1>3. EffectOf(phase[c], call[c], document[c], answer[c]) = "pending"
  BY Unseen DEF LockFails, ReadFails, WriteFails
<1>4. EffectOf(phase[c], call[c], document[c], answer[c])' = "error"
  BY <1>2, Answered
<1>5. Progress(c)' = [Progress(c) EXCEPT !.effect = "error"]
  BY <1>2, <1>3, <1>4 DEF Progress, ProgressOf
<1>. QED
  BY <1>1, <1>2, <1>3, <1>5 DEF Registry!Fail, Registry!Effect, Calling, Progress, ProgressOf

\* A key is accepted or not by what the file said when it was read.
LEMMA AuthenticateStep ==
    ASSUME IInv, NEW c \in Callers, ReadToAuthenticate(c)
    PROVE  Registry!Authenticate(c)
<1>1. Calling' = [Calling EXCEPT ![c] = Progress(c)']
  BY OneCall DEF Operation
<1>2. /\ file' = file /\ call' = call
      /\ phase'[c] = "deciding" /\ document'[c] = file
      /\ call[c].name = "authenticate"
  BY DEF ReadToAuthenticate, Go, IInv, TypeOK
<1>3. EffectOf(phase[c], call[c], document[c], answer[c]) = "pending"
  BY Unseen DEF ReadToAuthenticate
<1>4. EffectOf(phase[c], call[c], document[c], answer[c])' =
          IF file[call[c].key] = "active" THEN "accepted" ELSE "rejected"
  BY <1>2, Deciding
<1>. QED
  BY <1>1, <1>2, <1>3, <1>4
     DEF Registry!Authenticate, Registry!Effect, Calling, Progress, ProgressOf, Issuing

\* A revocation that finds nothing to change is over.
LEMMA NothingToRevokeStep ==
    ASSUME IInv, NEW c \in Callers, RevokeKey(c), phase'[c] # "encoded"
    PROVE  Registry!Revoke(c)
<1>1. Calling' = [Calling EXCEPT ![c] = Progress(c)']
  BY OneCall DEF Operation
<1>2. /\ file' = file /\ call' = call
      /\ phase'[c] = "done"
      /\ call[c].name \in Revoking
      /\ file[call[c].key] # "active"
      /\ answer'[c] = IF file[call[c].key] = "absent" THEN "not_found" ELSE "revoked"
  BY DEF RevokeKey, Leave, Go, IInv, TypeOK
<1>3. EffectOf(phase[c], call[c], document[c], answer[c]) = "pending"
  BY Unseen DEF RevokeKey
<1>4. EffectOf(phase[c], call[c], document[c], answer[c])' = answer'[c]
  BY <1>2, Answered
<1>5. file[call[c].key] # "absent" => file = [file EXCEPT ![call[c].key] = "revoked"]
  BY <1>2 DEF RevokeKey, IInv, TypeOK, Documents, Statuses
<1>6. /\ Calling[c] = [name |-> call[c].name, key |-> call[c].key, effect |-> "pending"]
      /\ Progress(c)' = [name |-> call[c].name, key |-> call[c].key, effect |-> answer'[c]]
  BY <1>2, <1>3, <1>4 DEF Calling, Progress, ProgressOf, Issuing, Revoking
<1>7. Registry!Effect(c, call[c].key, answer'[c])
  <2>1. Calling' = [Calling EXCEPT ![c] = [name   |-> Calling[c].name,
                                           key    |-> call[c].key,
                                           effect |-> answer'[c]]]
    BY <1>1, <1>6
  <2>2. Calling[c].effect = "pending"
    BY <1>6
  <2>. QED
    BY <2>1, <2>2 DEF Registry!Effect, Calling
<1>8. Calling[c].name \in Registry!Revoking
  BY <1>2, <1>6 DEF Registry!Revoking, Revoking
<1>9. CASE file[call[c].key] = "absent"
  BY <1>2, <1>6, <1>7, <1>8, <1>9 DEF Registry!Revoke, Calling
<1>10. CASE file[call[c].key] # "absent"
  BY <1>2, <1>5, <1>6, <1>7, <1>8, <1>10 DEF Registry!Revoke, Calling
<1>. QED
  BY <1>9, <1>10

\* Giving the new file the store's name is the moment of every change.
LEMMA ReplaceStep ==
    ASSUME IInv, NEW c \in Callers, Replace(c)
    PROVE  Registry!Issue(c) \/ Registry!Revoke(c)
<1>1. Calling' = [Calling EXCEPT ![c] = Progress(c)']
  BY OneCall DEF Operation
<1>2. /\ call' = call
      /\ phase'[c] = "replaced"
      /\ file' = document[c]
  BY DEF Replace, Go, IInv, TypeOK, CopyUpToDate
<1>3. EffectOf(phase[c], call[c], document[c], answer[c]) = "pending"
  BY Unseen DEF Replace
<1>4. EffectOf(phase[c], call[c], document[c], answer[c])' =
          IF call[c].name \in Issuing THEN "issued" ELSE "revoked"
  BY <1>2, Written
<1>5. CASE call[c].name \in Issuing
  <2>1. /\ call[c].key \in KeyIds
        /\ file[call[c].key] = "absent"
        /\ file' = [file EXCEPT ![call[c].key] = "active"]
    BY <1>2, <1>5 DEF Replace, IInv, CopyUpToDate, Issuing, Revoking
  <2>. QED
    BY <1>1, <1>2, <1>3, <1>4, <1>5, <2>1
       DEF Registry!Issue, Registry!Effect, Registry!Issuing, Calling, Progress, ProgressOf, Issuing
<1>6. CASE call[c].name \notin Issuing
  <2>1. /\ call[c].name \in Revoking
        /\ file[call[c].key] = "active"
        /\ file' = [file EXCEPT ![call[c].key] = "revoked"]
    BY <1>2, <1>6 DEF Replace, IInv, CopyUpToDate
  <2>. QED
    BY <1>1, <1>2, <1>3, <1>4, <1>6, <2>1
       DEF Registry!Revoke, Registry!Effect, Registry!Revoking, Calling, Progress, ProgressOf, Revoking
<1>. QED
  BY <1>5, <1>6

\* A key that could not be protected is the subject of a call of its own.
LEMMA DiscardStep ==
    ASSUME IInv, NEW c \in Callers, ProtectFails(c)
    PROVE  Registry!Invoke(c)
<1>1. Calling' = [Calling EXCEPT ![c] = Progress(c)']
  BY OneCall DEF Operation
<1>2. /\ file' = file
      /\ phase'[c] = "waiting"
      /\ call'[c] = [name |-> "discard", key |-> call[c].key]
      /\ call[c].key \in KeyIds
  BY DEF ProtectFails, Go, IInv, TypeOK, PhaseFitsCall, Issuing
<1>3. Calling[c].effect = "issued"
  BY Answered DEF ProtectFails, Calling, Progress, ProgressOf, IInv, PhaseFitsCall
<1>4. EffectOf(phase[c], call[c], document[c], answer[c])' = "pending"
  BY <1>2, Unseen
<1>5. Progress(c)' = [name |-> "discard", key |-> call[c].key, effect |-> "pending"]
  BY <1>2, <1>4 DEF Progress, ProgressOf, Issuing
<1>6. "discard" \in Registry!Revoking \cup {"authenticate"}
  BY DEF Registry!Revoking
<1>7. Calling' = [Calling EXCEPT ![c] = [name |-> "discard", key |-> call[c].key,
                                         effect |-> "pending"]]
  BY <1>1, <1>5
<1>8. Calling[c].effect # "pending"
  BY <1>3
<1>. QED
  BY <1>2, <1>6, <1>7, <1>8 DEF Registry!Invoke, Calling

LEMMA DieStep ==
    ASSUME IInv, NEW c \in Callers, Crash(c)
    PROVE  Registry!Die(c)
<1>1. Calling' = [Calling EXCEPT ![c] = Progress(c)']
  BY OneCall
<1>2. file' = file /\ phase'[c] = "idle" /\ call'[c] = NoCall
  BY DEF Crash, Go, IInv, TypeOK
<1>3. EffectOf(phase[c], call[c], document[c], answer[c])' = "none"
  BY <1>2, Idle
<1>4. Progress(c)' = Registry!NoCall
  BY <1>2, <1>3 DEF Progress, ProgressOf, NoCall, Registry!NoCall, Issuing
<1>. QED
  BY <1>1, <1>2, <1>4 DEF Registry!Die, Calling

-----------------------------------------------------------------------------
\* The store is a registry.

LEMMA InitMaps == Init => Registry!Init
BY Idle DEF Init, Registry!Init, Empty, Progress, ProgressOf, NoCall, Registry!NoCall, Issuing

LEMMA NextMaps == IInv /\ [Next]_vars => [Registry!Next]_(Registry!vars)
<1>. SUFFICES ASSUME IInv, [Next]_vars
              PROVE  Registry!Next \/ UNCHANGED Registry!vars
  OBVIOUS
<1>1. ASSUME NEW c \in Callers, Call(c) \/ Operation(c) \/ Crash(c)
      PROVE  Registry!Next \/ UNCHANGED Registry!vars
  BY <1>1, InvokeStep, SilentStep, FailStep, AuthenticateStep, NothingToRevokeStep,
     ReplaceStep, DiscardStep, DieStep DEF Operation, Registry!Next
<1>2. CASE UNCHANGED vars
  BY <1>2 DEF vars, Registry!vars, Progress
<1>. QED
  BY <1>1, <1>2 DEF Next

\* The file, its lock and its replacement amount to a table in memory whose
\* operations are instantaneous (api_keys.ApiKeyStore, file_io.atomic_write),
\* for any number of threads and processes and any keys.
THEOREM Refinement == Spec => KeepsRegistry
BY InitMaps, NextMaps, Invariance, PTL DEF Spec, KeepsRegistry, Registry!Spec

=============================================================================
