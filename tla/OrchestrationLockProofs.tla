------------------------ MODULE OrchestrationLockProofs ------------------------
(***************************************************************************)
(* Safety of the shared orchestration lock for any number of processes and *)
(* children, on either platform.                                           *)
(***************************************************************************)
EXTENDS OrchestrationLock, TLAPS

(* A process creates at most one file, and its text tells whether it has.  *)
NoFileYet ==
    \A p \in Proc : pc[p] \in {"idle", "lockwait", "retry"} \cup Inspecting => text[p] = "none"
FilesExist ==
    /\ path # NoProc => text[path] # "none"
    /\ \A m \in Masters : look[m].file # NoProc => text[look[m].file] # "none"
    /\ \A p \in guarded : text[p] # "none"

(* Descriptors: who has its file open, and that Windows keeps it in place. *)
Descriptors ==
    /\ \A p \in Proc : fd[p] => pc[p] \in {"write", "hold"}
    /\ \A p \in Proc : pc[p] = "write" \/ (p \in Keepers /\ Holds(p)) => fd[p]

(* Recovery is serialised, and only masters recover. *)
MutexInv ==
    \A p \in Proc : pc[p] \in {"lockwait", "retry"} \cup Inspecting
                      => p \in Masters /\ (pc[p] # "lockwait" => mutex = p)

(* A live process' file goes stale only when it is complete. *)
AgedInv == \A p \in Proc : aged[p] /\ text[p] = "torn" => pc[p] = "gone"

(* A file records children of its own process only. *)
OwnKids == \A p \in Proc : \A k \in children[p] \cup rec[p] : k[1] = p

(* What the inspection has established, read by read. *)
PidRead == {"probe", "readkids", "unlink"}
Justified(q) == pc[q] = "gone" /\ (text[q] = "full" => rec[q] \cap live = {})
LookInv(m) ==
    /\ pc[m] \in PidRead =>
         /\ look[m].pid # NoProc => look[m].pid = look[m].file
         /\ path \in guarded => path = look[m].file
    /\ pc[m] \in {"probe", "readkids"} =>
         ((look[m].file # NoProc /\ look[m].pid = NoProc /\ aged[look[m].file])
            => pc[look[m].file] = "gone" /\ text[look[m].file] = "torn")
    /\ pc[m] \in {"readkids", "unlink"} =>
         /\ look[m].alive = "dead" => look[m].pid # NoProc /\ pc[look[m].pid] = "gone"
         /\ look[m].alive = "unknown" /\ ~ProbeMayFail => look[m].pid = NoProc
    /\ pc[m] = "unlink" =>
         /\ look[m].alive \in {"dead", "unknown"}
         /\ (path # NoProc /\ path = look[m].file /\ (look[m].alive = "dead" \/ ~ProbeMayFail))
              => Justified(path)

IInv ==
    /\ TypeOK /\ NoFileYet /\ FilesExist /\ Descriptors /\ OpenFileIsAtPath
    /\ MutexInv /\ AgedInv /\ OwnKids
    /\ \A m \in Masters : LookInv(m)

-----------------------------------------------------------------------------
(* Creating the file keeps the five variables it writes in range. *)
LEMMA CreateType ==
  ASSUME TypeOK, NEW p \in Proc, CreateFile(p)
  PROVE  /\ pc' \in [Proc -> PCs]
         /\ path' \in Proc \cup {NoProc}
         /\ text' \in [Proc -> {"none", "torn", "full"}]
         /\ aged' \in [Proc -> BOOLEAN]
         /\ fd' \in [Proc -> BOOLEAN]
<1> USE DEF TypeOK, CreateFile, Move, PCs
<1>1. pc' \in [Proc -> PCs]
  OBVIOUS
<1>2. path' \in Proc \cup {NoProc}
  OBVIOUS
<1>3. text' \in [Proc -> {"none", "torn", "full"}]
  OBVIOUS
<1>4. aged' \in [Proc -> BOOLEAN] /\ fd' \in [Proc -> BOOLEAN]
  OBVIOUS
<1> QED
  BY <1>1, <1>2, <1>3, <1>4

(* Every step of the lock protocol keeps each variable in its range. *)
LEMMA TypeStep == TypeOK /\ [Next]_vars => TypeOK'
<1> SUFFICES ASSUME TypeOK, [Next]_vars
             PROVE  TypeOK'
  OBVIOUS
<1> USE ProcAssumption DEF TypeOK, PCs, Inspecting, Verdicts, Blank, Keepers, Proc, Kids, kidVars
<1>1. ASSUME NEW p \in Proc, TryCreate(p) PROVE TypeOK'
  <2>1. CASE path = NoProc
    BY <1>1, <2>1, CreateType DEF TryCreate
  <2>2. CASE path # NoProc
    BY <1>1, <2>2 DEF TryCreate, Move
  <2> QED
    BY <2>1, <2>2
<1>2. ASSUME NEW p \in Proc, WriteState(p) PROVE TypeOK'
  BY <1>2 DEF WriteState, Move
<1>3. ASSUME NEW p \in Proc, WriteFails(p) PROVE TypeOK'
  BY <1>3 DEF WriteFails, CanUnlink, Move
<1>4. ASSUME NEW p \in Proc, CheckOwner(p) PROVE TypeOK'
  BY <1>4 DEF CheckOwner, Move
<1>5. ASSUME NEW p \in Proc, UnlinkAtExit(p) PROVE TypeOK'
  BY <1>5 DEF UnlinkAtExit, Move
<1>6. ASSUME NEW p \in Proc, End(p) PROVE TypeOK'
  BY <1>6 DEF End, Move
<1>7. ASSUME NEW p \in Proc, Release(p) PROVE TypeOK'
  BY <1>7 DEF Release, Move
<1>8. ASSUME NEW p \in Proc, Crash(p) PROVE TypeOK'
  BY <1>8 DEF Crash, FreeMutex, Move
<1>9. ASSUME NEW p \in Proc, Age(p) PROVE TypeOK'
  BY <1>9 DEF Age
<1>10. ASSUME NEW m \in Masters, EnterMutex(m) PROVE TypeOK'
  BY <1>10 DEF EnterMutex, Move
<1>11. ASSUME NEW m \in Masters, MutexTimeout(m) PROVE TypeOK'
  BY <1>11 DEF MutexTimeout, Move
<1>12. ASSUME NEW m \in Masters, Retry(m) PROVE TypeOK'
  <2>1. CASE path = NoProc
    BY <1>12, <2>1, CreateType DEF Retry, CreateGuarded
  <2>2. CASE path # NoProc
    BY <1>12, <2>2 DEF Retry, Move
  <2> QED
    BY <2>1, <2>2
<1>13. ASSUME NEW m \in Masters, ReadPid(m) PROVE TypeOK'
  BY <1>13 DEF ReadPid, RecordedPid, Move
<1>14. ASSUME NEW m \in Masters, Probe(m) PROVE TypeOK'
  <2>1. PICK v \in Verdicts : look' = [look EXCEPT ![m].alive = v]
    BY <1>14 DEF Probe
  <2>2. /\ pc' = [pc EXCEPT ![m] = "readkids"]
        /\ UNCHANGED <<path, text, rec, aged, fd, mutex, guarded, kidVars>>
    BY <1>14 DEF Probe, Move
  <2>3. look' \in [Masters -> [file : Proc \cup {NoProc}, pid : Proc \cup {NoProc}, alive : Verdicts]]
    BY <2>1
  <2> QED
    BY <2>2, <2>3
<1>15. ASSUME NEW m \in Masters, Judge(m) PROVE TypeOK'
  BY <1>15 DEF Judge, FreeMutex, Move
<1>16. ASSUME NEW m \in Masters, Override(m) PROVE TypeOK'
  BY <1>16 DEF Override, Move
<1>17. ASSUME NEW m \in Masters, OverrideDenied(m) PROVE TypeOK'
  BY <1>17 DEF OverrideDenied, FreeMutex, Move
<1>18. ASSUME NEW m \in Masters, Recreate(m) PROVE TypeOK'
  <2>1. CASE path = NoProc
    BY <1>18, <2>1, CreateType DEF Recreate, CreateGuarded
  <2>2. CASE path # NoProc
    BY <1>18, <2>2 DEF Recreate, FreeMutex, Move
  <2> QED
    BY <2>1, <2>2
<1>19. ASSUME NEW p \in Parents, NEW s \in Slots, Popen(p, s) PROVE TypeOK'
  BY <1>19 DEF Popen, lockVars
<1>20. ASSUME NEW p \in Parents, NEW s \in Slots, Register(p, s) PROVE TypeOK'
  BY <1>20 DEF Register, lockVars
<1>21. ASSUME NEW p \in Parents, NEW s \in Slots, Unregister(p, s) PROVE TypeOK'
  BY <1>21 DEF Unregister, lockVars
<1>22. ASSUME NEW p \in Parents, NEW s \in Slots, Flush(p, s) PROVE TypeOK'
  BY <1>22 DEF Flush, lockVars
<1>23. ASSUME NEW k \in Kids, KidEnds(k) PROVE TypeOK'
  BY <1>23 DEF KidEnds, lockVars
<1>24. ASSUME NEW k \in Kids, Borrow(k) PROVE TypeOK'
  BY <1>24 DEF Borrow, lockVars
<1>25. CASE UNCHANGED vars
  BY <1>25 DEF vars
<1> QED
  BY <1>1, <1>2, <1>3, <1>4, <1>5, <1>6, <1>7, <1>8, <1>9, <1>10, <1>11, <1>12, <1>13, <1>14, <1>15, <1>16, <1>17, <1>18, <1>19, <1>20, <1>21, <1>22, <1>23, <1>24, <1>25 DEF Next, Step, Recover, KidStep

(* A file, once created, never vanishes as an inode, and nobody creates two. *)
LEMMA FilesStep == TypeOK /\ NoFileYet /\ FilesExist /\ [Next]_vars => NoFileYet' /\ FilesExist'
<1> SUFFICES ASSUME TypeOK, NoFileYet, FilesExist, [Next]_vars
             PROVE  NoFileYet' /\ FilesExist'
  OBVIOUS
<1> USE ProcAssumption DEF TypeOK, NoFileYet, FilesExist, Inspecting, Keepers, Proc, Kids, kidVars
<1>1. ASSUME NEW p \in Proc, TryCreate(p)
      PROVE  NoFileYet' /\ FilesExist'
  BY <1>1 DEF TryCreate, CreateFile, Move
<1>2. ASSUME NEW p \in Proc, WriteState(p)
      PROVE  NoFileYet' /\ FilesExist'
  BY <1>2 DEF WriteState, Move
<1>3. ASSUME NEW p \in Proc, WriteFails(p)
      PROVE  NoFileYet' /\ FilesExist'
  BY <1>3 DEF WriteFails, CanUnlink, Move
<1>4. ASSUME NEW p \in Proc, CheckOwner(p) \/ UnlinkAtExit(p) \/ End(p) \/ Release(p)
      PROVE  NoFileYet' /\ FilesExist'
  BY <1>4 DEF CheckOwner, Move, UnlinkAtExit, CanUnlink, End, Release
<1>5. ASSUME NEW p \in Proc, Crash(p)
      PROVE  NoFileYet' /\ FilesExist'
  BY <1>5 DEF Crash, Alive, FreeMutex, Move
<1>6. ASSUME NEW p \in Proc, Age(p)
      PROVE  NoFileYet' /\ FilesExist'
  BY <1>6 DEF Age, Alive
<1>7. ASSUME NEW m \in Masters, EnterMutex(m) \/ MutexTimeout(m)
      PROVE  NoFileYet' /\ FilesExist'
  BY <1>7 DEF EnterMutex, Move, MutexTimeout
<1>8. ASSUME NEW m \in Masters, Retry(m)
      PROVE  NoFileYet' /\ FilesExist'
  BY <1>8 DEF Retry, CreateGuarded, CreateFile, Move
<1>9. ASSUME NEW m \in Masters, ReadPid(m)
      PROVE  NoFileYet' /\ FilesExist'
  BY <1>9 DEF ReadPid, RecordedPid, Blank, Move
<1>10. ASSUME NEW m \in Masters, Probe(m)
      PROVE  NoFileYet' /\ FilesExist'
  BY <1>10 DEF Probe, Alive, Verdicts, Move
<1>11. ASSUME NEW m \in Masters, Judge(m)
      PROVE  NoFileYet' /\ FilesExist'
  BY <1>11 DEF Judge, MayOverride, RecordedChildren, RecordedPid, FreeMutex, Move
<1>12. ASSUME NEW m \in Masters, Override(m) \/ OverrideDenied(m)
      PROVE  NoFileYet' /\ FilesExist'
  BY <1>12 DEF Override, CanUnlink, Move, OverrideDenied, FreeMutex
<1>13. ASSUME NEW m \in Masters, Recreate(m)
      PROVE  NoFileYet' /\ FilesExist'
  BY <1>13 DEF Recreate, CreateGuarded, CreateFile, FreeMutex, Move
<1>14. ASSUME NEW p \in Parents, NEW s \in Slots, Popen(p, s) \/ Register(p, s) \/ Unregister(p, s) \/ Flush(p, s)
      PROVE  NoFileYet' /\ FilesExist'
  BY <1>14 DEF Popen, lockVars, Register, Unregister, Flush
<1>15. ASSUME NEW k \in Kids, KidEnds(k) \/ Borrow(k)
      PROVE  NoFileYet' /\ FilesExist'
  BY <1>15 DEF KidEnds, lockVars, Borrow
<1>16. CASE UNCHANGED vars
  BY <1>16 DEF vars, kidVars
<1> QED
  BY <1>1, <1>2, <1>3, <1>4, <1>5, <1>6, <1>7, <1>8, <1>9, <1>10, <1>11, <1>12, <1>13, <1>14, <1>15, <1>16 DEF Next, Step, Recover, KidStep

(* A descriptor is open exactly while its process writes or owns the lock. *)
LEMMA DescriptorsStep == TypeOK /\ Descriptors /\ [Next]_vars => Descriptors'
<1> SUFFICES ASSUME TypeOK, Descriptors, [Next]_vars
             PROVE  Descriptors'
  OBVIOUS
<1> USE ProcAssumption DEF TypeOK, Descriptors, Holds, Inspecting, Keepers, Proc, Kids, kidVars
<1>1. ASSUME NEW p \in Proc, TryCreate(p)
      PROVE  Descriptors'
  BY <1>1 DEF TryCreate, CreateFile, Move
<1>2. ASSUME NEW p \in Proc, WriteState(p)
      PROVE  Descriptors'
  BY <1>2 DEF WriteState, Move
<1>3. ASSUME NEW p \in Proc, WriteFails(p)
      PROVE  Descriptors'
  BY <1>3 DEF WriteFails, CanUnlink, Move
<1>4. ASSUME NEW p \in Proc, CheckOwner(p) \/ UnlinkAtExit(p) \/ End(p) \/ Release(p)
      PROVE  Descriptors'
  BY <1>4 DEF CheckOwner, Move, UnlinkAtExit, CanUnlink, End, Release
<1>5. ASSUME NEW p \in Proc, Crash(p)
      PROVE  Descriptors'
  BY <1>5 DEF Crash, Alive, FreeMutex, Move
<1>6. ASSUME NEW p \in Proc, Age(p)
      PROVE  Descriptors'
  BY <1>6 DEF Age, Alive
<1>7. ASSUME NEW m \in Masters, EnterMutex(m) \/ MutexTimeout(m)
      PROVE  Descriptors'
  BY <1>7 DEF EnterMutex, Move, MutexTimeout
<1>8. ASSUME NEW m \in Masters, Retry(m)
      PROVE  Descriptors'
  BY <1>8 DEF Retry, CreateGuarded, CreateFile, Move
<1>9. ASSUME NEW m \in Masters, ReadPid(m)
      PROVE  Descriptors'
  BY <1>9 DEF ReadPid, RecordedPid, Blank, Move
<1>10. ASSUME NEW m \in Masters, Probe(m)
      PROVE  Descriptors'
  BY <1>10 DEF Probe, Alive, Verdicts, Move
<1>11. ASSUME NEW m \in Masters, Judge(m)
      PROVE  Descriptors'
  BY <1>11 DEF Judge, MayOverride, RecordedChildren, RecordedPid, FreeMutex, Move
<1>12. ASSUME NEW m \in Masters, Override(m) \/ OverrideDenied(m)
      PROVE  Descriptors'
  BY <1>12 DEF Override, CanUnlink, Move, OverrideDenied, FreeMutex
<1>13. ASSUME NEW m \in Masters, Recreate(m)
      PROVE  Descriptors'
  BY <1>13 DEF Recreate, CreateGuarded, CreateFile, FreeMutex, Move
<1>14. ASSUME NEW p \in Parents, NEW s \in Slots, Popen(p, s) \/ Register(p, s) \/ Unregister(p, s) \/ Flush(p, s)
      PROVE  Descriptors'
  BY <1>14 DEF Popen, lockVars, Register, Unregister, Flush
<1>15. ASSUME NEW k \in Kids, KidEnds(k) \/ Borrow(k)
      PROVE  Descriptors'
  BY <1>15 DEF KidEnds, lockVars, Borrow
<1>16. CASE UNCHANGED vars
  BY <1>16 DEF vars, kidVars
<1> QED
  BY <1>1, <1>2, <1>3, <1>4, <1>5, <1>6, <1>7, <1>8, <1>9, <1>10, <1>11, <1>12, <1>13, <1>14, <1>15, <1>16 DEF Next, Step, Recover, KidStep

(* On Windows no step takes an open file away from the path. *)
LEMMA PathStep == TypeOK /\ Descriptors /\ OpenFileIsAtPath /\ [Next]_vars => OpenFileIsAtPath'
<1> SUFFICES ASSUME TypeOK, Descriptors, OpenFileIsAtPath, [Next]_vars
             PROVE  OpenFileIsAtPath'
  OBVIOUS
<1> USE ProcAssumption DEF TypeOK, OpenFileIsAtPath, Keepers, Proc, Kids, kidVars
<1>1. ASSUME NEW p \in Proc, TryCreate(p)
      PROVE  OpenFileIsAtPath'
  BY <1>1 DEF TryCreate, CreateFile, Move
<1>2. ASSUME NEW p \in Proc, WriteState(p)
      PROVE  OpenFileIsAtPath'
  BY <1>2 DEF WriteState, Move
<1>3. ASSUME NEW p \in Proc, WriteFails(p)
      PROVE  OpenFileIsAtPath'
  BY <1>3 DEF WriteFails, CanUnlink, Move
<1>4. ASSUME NEW p \in Proc, CheckOwner(p) \/ UnlinkAtExit(p) \/ End(p) \/ Release(p)
      PROVE  OpenFileIsAtPath'
  BY <1>4 DEF CheckOwner, Move, UnlinkAtExit, CanUnlink, End, Release
<1>5. ASSUME NEW p \in Proc, Crash(p)
      PROVE  OpenFileIsAtPath'
  BY <1>5 DEF Crash, Alive, FreeMutex, Move
<1>6. ASSUME NEW p \in Proc, Age(p)
      PROVE  OpenFileIsAtPath'
  BY <1>6 DEF Age, Alive
<1>7. ASSUME NEW m \in Masters, EnterMutex(m) \/ MutexTimeout(m)
      PROVE  OpenFileIsAtPath'
  BY <1>7 DEF EnterMutex, Move, MutexTimeout
<1>8. ASSUME NEW m \in Masters, Retry(m)
      PROVE  OpenFileIsAtPath'
  BY <1>8 DEF Retry, CreateGuarded, CreateFile, Move
<1>9. ASSUME NEW m \in Masters, ReadPid(m)
      PROVE  OpenFileIsAtPath'
  BY <1>9 DEF ReadPid, RecordedPid, Blank, Move
<1>10. ASSUME NEW m \in Masters, Probe(m)
      PROVE  OpenFileIsAtPath'
  BY <1>10 DEF Probe, Alive, Verdicts, Move
<1>11. ASSUME NEW m \in Masters, Judge(m)
      PROVE  OpenFileIsAtPath'
  BY <1>11 DEF Judge, MayOverride, RecordedChildren, RecordedPid, FreeMutex, Move
<1>12. ASSUME NEW m \in Masters, Override(m) \/ OverrideDenied(m)
      PROVE  OpenFileIsAtPath'
  BY <1>12 DEF Override, CanUnlink, Move, OverrideDenied, FreeMutex
<1>13. ASSUME NEW m \in Masters, Recreate(m)
      PROVE  OpenFileIsAtPath'
  BY <1>13 DEF Recreate, CreateGuarded, CreateFile, FreeMutex, Move
<1>14. ASSUME NEW p \in Parents, NEW s \in Slots, Popen(p, s) \/ Register(p, s) \/ Unregister(p, s) \/ Flush(p, s)
      PROVE  OpenFileIsAtPath'
  BY <1>14 DEF Popen, lockVars, Register, Unregister, Flush
<1>15. ASSUME NEW k \in Kids, KidEnds(k) \/ Borrow(k)
      PROVE  OpenFileIsAtPath'
  BY <1>15 DEF KidEnds, lockVars, Borrow
<1>16. CASE UNCHANGED vars
  BY <1>16 DEF vars, kidVars
<1> QED
  BY <1>1, <1>2, <1>3, <1>4, <1>5, <1>6, <1>7, <1>8, <1>9, <1>10, <1>11, <1>12, <1>13, <1>14, <1>15, <1>16 DEF Next, Step, Recover, KidStep

(* Only the holder of the recovery mutex inspects the lock. *)
LEMMA MutexStep == TypeOK /\ MutexInv /\ [Next]_vars => MutexInv'
<1> SUFFICES ASSUME TypeOK, MutexInv, [Next]_vars
             PROVE  MutexInv'
  OBVIOUS
<1> USE ProcAssumption DEF TypeOK, MutexInv, Inspecting, Keepers, Proc, Kids, kidVars
<1>1. ASSUME NEW p \in Proc, TryCreate(p)
      PROVE  MutexInv'
  BY <1>1 DEF TryCreate, CreateFile, Move
<1>2. ASSUME NEW p \in Proc, WriteState(p)
      PROVE  MutexInv'
  BY <1>2 DEF WriteState, Move
<1>3. ASSUME NEW p \in Proc, WriteFails(p)
      PROVE  MutexInv'
  BY <1>3 DEF WriteFails, CanUnlink, Move
<1>4. ASSUME NEW p \in Proc, CheckOwner(p) \/ UnlinkAtExit(p) \/ End(p) \/ Release(p)
      PROVE  MutexInv'
  BY <1>4 DEF CheckOwner, Move, UnlinkAtExit, CanUnlink, End, Release
<1>5. ASSUME NEW p \in Proc, Crash(p)
      PROVE  MutexInv'
  BY <1>5 DEF Crash, Alive, FreeMutex, Move
<1>6. ASSUME NEW p \in Proc, Age(p)
      PROVE  MutexInv'
  BY <1>6 DEF Age, Alive
<1>7. ASSUME NEW m \in Masters, EnterMutex(m) \/ MutexTimeout(m)
      PROVE  MutexInv'
  BY <1>7 DEF EnterMutex, Move, MutexTimeout
<1>8. ASSUME NEW m \in Masters, Retry(m)
      PROVE  MutexInv'
  BY <1>8 DEF Retry, CreateGuarded, CreateFile, Move
<1>9. ASSUME NEW m \in Masters, ReadPid(m)
      PROVE  MutexInv'
  BY <1>9 DEF ReadPid, RecordedPid, Blank, Move
<1>10. ASSUME NEW m \in Masters, Probe(m)
      PROVE  MutexInv'
  BY <1>10 DEF Probe, Alive, Verdicts, Move
<1>11. ASSUME NEW m \in Masters, Judge(m)
      PROVE  MutexInv'
  BY <1>11 DEF Judge, MayOverride, RecordedChildren, RecordedPid, FreeMutex, Move
<1>12. ASSUME NEW m \in Masters, Override(m) \/ OverrideDenied(m)
      PROVE  MutexInv'
  BY <1>12 DEF Override, CanUnlink, Move, OverrideDenied, FreeMutex
<1>13. ASSUME NEW m \in Masters, Recreate(m)
      PROVE  MutexInv'
  BY <1>13 DEF Recreate, CreateGuarded, CreateFile, FreeMutex, Move
<1>14. ASSUME NEW p \in Parents, NEW s \in Slots, Popen(p, s) \/ Register(p, s) \/ Unregister(p, s) \/ Flush(p, s)
      PROVE  MutexInv'
  BY <1>14 DEF Popen, lockVars, Register, Unregister, Flush
<1>15. ASSUME NEW k \in Kids, KidEnds(k) \/ Borrow(k)
      PROVE  MutexInv'
  BY <1>15 DEF KidEnds, lockVars, Borrow
<1>16. CASE UNCHANGED vars
  BY <1>16 DEF vars, kidVars
<1> QED
  BY <1>1, <1>2, <1>3, <1>4, <1>5, <1>6, <1>7, <1>8, <1>9, <1>10, <1>11, <1>12, <1>13, <1>14, <1>15, <1>16 DEF Next, Step, Recover, KidStep

(* Time never turns the file of a live writer stale. *)
LEMMA AgedStep == TypeOK /\ NoFileYet /\ AgedInv /\ [Next]_vars => AgedInv'
<1> SUFFICES ASSUME TypeOK, NoFileYet, AgedInv, [Next]_vars
             PROVE  AgedInv'
  OBVIOUS
<1> USE ProcAssumption DEF TypeOK, NoFileYet, AgedInv, Inspecting, Keepers, Proc, Kids, kidVars
<1>1. ASSUME NEW p \in Proc, TryCreate(p)
      PROVE  AgedInv'
  BY <1>1 DEF TryCreate, CreateFile, Move
<1>2. ASSUME NEW p \in Proc, WriteState(p)
      PROVE  AgedInv'
  BY <1>2 DEF WriteState, Move
<1>3. ASSUME NEW p \in Proc, WriteFails(p)
      PROVE  AgedInv'
  BY <1>3 DEF WriteFails, CanUnlink, Move
<1>4. ASSUME NEW p \in Proc, CheckOwner(p) \/ UnlinkAtExit(p) \/ End(p) \/ Release(p)
      PROVE  AgedInv'
  BY <1>4 DEF CheckOwner, Move, UnlinkAtExit, CanUnlink, End, Release
<1>5. ASSUME NEW p \in Proc, Crash(p)
      PROVE  AgedInv'
  BY <1>5 DEF Crash, Alive, FreeMutex, Move
<1>6. ASSUME NEW p \in Proc, Age(p)
      PROVE  AgedInv'
  BY <1>6 DEF Age, Alive
<1>7. ASSUME NEW m \in Masters, EnterMutex(m) \/ MutexTimeout(m)
      PROVE  AgedInv'
  BY <1>7 DEF EnterMutex, Move, MutexTimeout
<1>8. ASSUME NEW m \in Masters, Retry(m)
      PROVE  AgedInv'
  BY <1>8 DEF Retry, CreateGuarded, CreateFile, Move
<1>9. ASSUME NEW m \in Masters, ReadPid(m)
      PROVE  AgedInv'
  BY <1>9 DEF ReadPid, RecordedPid, Blank, Move
<1>10. ASSUME NEW m \in Masters, Probe(m)
      PROVE  AgedInv'
  BY <1>10 DEF Probe, Alive, Verdicts, Move
<1>11. ASSUME NEW m \in Masters, Judge(m)
      PROVE  AgedInv'
  BY <1>11 DEF Judge, MayOverride, RecordedChildren, RecordedPid, FreeMutex, Move
<1>12. ASSUME NEW m \in Masters, Override(m) \/ OverrideDenied(m)
      PROVE  AgedInv'
  BY <1>12 DEF Override, CanUnlink, Move, OverrideDenied, FreeMutex
<1>13. ASSUME NEW m \in Masters, Recreate(m)
      PROVE  AgedInv'
  BY <1>13 DEF Recreate, CreateGuarded, CreateFile, FreeMutex, Move
<1>14. ASSUME NEW p \in Parents, NEW s \in Slots, Popen(p, s) \/ Register(p, s) \/ Unregister(p, s) \/ Flush(p, s)
      PROVE  AgedInv'
  BY <1>14 DEF Popen, lockVars, Register, Unregister, Flush
<1>15. ASSUME NEW k \in Kids, KidEnds(k) \/ Borrow(k)
      PROVE  AgedInv'
  BY <1>15 DEF KidEnds, lockVars, Borrow
<1>16. CASE UNCHANGED vars
  BY <1>16 DEF vars, kidVars
<1> QED
  BY <1>1, <1>2, <1>3, <1>4, <1>5, <1>6, <1>7, <1>8, <1>9, <1>10, <1>11, <1>12, <1>13, <1>14, <1>15, <1>16 DEF Next, Step, Recover, KidStep

(* A process registers and records its own children only. *)
LEMMA OwnKidsStep == TypeOK /\ OwnKids /\ [Next]_vars => OwnKids'
<1> SUFFICES ASSUME TypeOK, OwnKids, [Next]_vars
             PROVE  OwnKids'
  OBVIOUS
<1> USE ProcAssumption DEF TypeOK, OwnKids, Keepers, Proc, Kids, kidVars
<1>1. ASSUME NEW p \in Proc, TryCreate(p)
      PROVE  OwnKids'
  BY <1>1 DEF TryCreate, CreateFile, Move
<1>2. ASSUME NEW p \in Proc, WriteState(p)
      PROVE  OwnKids'
  BY <1>2 DEF WriteState, Move
<1>3. ASSUME NEW p \in Proc, WriteFails(p)
      PROVE  OwnKids'
  BY <1>3 DEF WriteFails, CanUnlink, Move
<1>4. ASSUME NEW p \in Proc, CheckOwner(p) \/ UnlinkAtExit(p) \/ End(p) \/ Release(p)
      PROVE  OwnKids'
  BY <1>4 DEF CheckOwner, Move, UnlinkAtExit, CanUnlink, End, Release
<1>5. ASSUME NEW p \in Proc, Crash(p)
      PROVE  OwnKids'
  BY <1>5 DEF Crash, Alive, FreeMutex, Move
<1>6. ASSUME NEW p \in Proc, Age(p)
      PROVE  OwnKids'
  BY <1>6 DEF Age, Alive
<1>7. ASSUME NEW m \in Masters, EnterMutex(m) \/ MutexTimeout(m)
      PROVE  OwnKids'
  BY <1>7 DEF EnterMutex, Move, MutexTimeout
<1>8. ASSUME NEW m \in Masters, Retry(m)
      PROVE  OwnKids'
  BY <1>8 DEF Retry, CreateGuarded, CreateFile, Move
<1>9. ASSUME NEW m \in Masters, ReadPid(m)
      PROVE  OwnKids'
  BY <1>9 DEF ReadPid, RecordedPid, Blank, Move
<1>10. ASSUME NEW m \in Masters, Probe(m)
      PROVE  OwnKids'
  BY <1>10 DEF Probe, Alive, Verdicts, Move
<1>11. ASSUME NEW m \in Masters, Judge(m)
      PROVE  OwnKids'
  BY <1>11 DEF Judge, MayOverride, RecordedChildren, RecordedPid, FreeMutex, Move
<1>12. ASSUME NEW m \in Masters, Override(m) \/ OverrideDenied(m)
      PROVE  OwnKids'
  BY <1>12 DEF Override, CanUnlink, Move, OverrideDenied, FreeMutex
<1>13. ASSUME NEW m \in Masters, Recreate(m)
      PROVE  OwnKids'
  BY <1>13 DEF Recreate, CreateGuarded, CreateFile, FreeMutex, Move
<1>14. ASSUME NEW p \in Parents, NEW s \in Slots, Popen(p, s) \/ Register(p, s) \/ Unregister(p, s) \/ Flush(p, s)
      PROVE  OwnKids'
  BY <1>14 DEF Popen, lockVars, Register, Unregister, Flush
<1>15. ASSUME NEW k \in Kids, KidEnds(k) \/ Borrow(k)
      PROVE  OwnKids'
  BY <1>15 DEF KidEnds, lockVars, Borrow
<1>16. CASE UNCHANGED vars
  BY <1>16 DEF vars, kidVars
<1> QED
  BY <1>1, <1>2, <1>3, <1>4, <1>5, <1>6, <1>7, <1>8, <1>9, <1>10, <1>11, <1>12, <1>13, <1>14, <1>15, <1>16 DEF Next, Step, Recover, KidStep

(* Each read of the inspection establishes what the verdict rests on, and no *)
(* step of another process undoes it.                                         *)
LEMMA LookStep == IInv /\ [Next]_vars => \A n \in Masters : LookInv(n)'
<1> SUFFICES ASSUME IInv, [Next]_vars, NEW n \in Masters
             PROVE  LookInv(n)'
  OBVIOUS
<1> USE ProcAssumption DEF IInv, TypeOK, LookInv, PidRead, Justified, NoFileYet, FilesExist, MutexInv, AgedInv, OwnKids, Inspecting, Keepers, Proc, Kids, kidVars
<1>1. ASSUME NEW p \in Proc, TryCreate(p)
      PROVE  LookInv(n)'
  BY <1>1 DEF TryCreate, CreateFile, Move
<1>2. ASSUME NEW p \in Proc, WriteState(p)
      PROVE  LookInv(n)'
  BY <1>2 DEF WriteState, Move
<1>3. ASSUME NEW p \in Proc, WriteFails(p)
      PROVE  LookInv(n)'
  BY <1>3 DEF WriteFails, CanUnlink, Move
<1>4. ASSUME NEW p \in Proc, CheckOwner(p) \/ UnlinkAtExit(p) \/ End(p) \/ Release(p)
      PROVE  LookInv(n)'
  BY <1>4 DEF CheckOwner, Move, UnlinkAtExit, CanUnlink, End, Release
<1>5. ASSUME NEW p \in Proc, Crash(p)
      PROVE  LookInv(n)'
  BY <1>5 DEF Crash, Alive, FreeMutex, Move
<1>6. ASSUME NEW p \in Proc, Age(p)
      PROVE  LookInv(n)'
  BY <1>6 DEF Age, Alive
<1>7. ASSUME NEW m \in Masters, EnterMutex(m) \/ MutexTimeout(m)
      PROVE  LookInv(n)'
  BY <1>7 DEF EnterMutex, Move, MutexTimeout
<1>8. ASSUME NEW m \in Masters, Retry(m)
      PROVE  LookInv(n)'
  BY <1>8 DEF Retry, CreateGuarded, CreateFile, Move
<1>9. ASSUME NEW m \in Masters, ReadPid(m)
      PROVE  LookInv(n)'
  BY <1>9 DEF ReadPid, RecordedPid, Blank, Move
<1>10. ASSUME NEW m \in Masters, Probe(m)
      PROVE  LookInv(n)'
  BY <1>10 DEF Probe, Alive, Verdicts, Move
<1>11. ASSUME NEW m \in Masters, Judge(m)
      PROVE  LookInv(n)'
  BY <1>11 DEF Judge, MayOverride, RecordedChildren, RecordedPid, FreeMutex, Move
<1>12. ASSUME NEW m \in Masters, Override(m) \/ OverrideDenied(m)
      PROVE  LookInv(n)'
  BY <1>12 DEF Override, CanUnlink, Move, OverrideDenied, FreeMutex
<1>13. ASSUME NEW m \in Masters, Recreate(m)
      PROVE  LookInv(n)'
  BY <1>13 DEF Recreate, CreateGuarded, CreateFile, FreeMutex, Move
<1>14. ASSUME NEW p \in Parents, NEW s \in Slots, Popen(p, s)
      PROVE  LookInv(n)'
  BY <1>14 DEF Popen, lockVars
<1>15. ASSUME NEW p \in Parents, NEW s \in Slots, Register(p, s)
      PROVE  LookInv(n)'
  BY <1>15 DEF Register, lockVars
<1>16. ASSUME NEW p \in Parents, NEW s \in Slots, Unregister(p, s)
      PROVE  LookInv(n)'
  BY <1>16 DEF Unregister, lockVars
<1>17. ASSUME NEW p \in Parents, NEW s \in Slots, Flush(p, s)
      PROVE  LookInv(n)'
  BY <1>17 DEF Flush, lockVars
<1>18. ASSUME NEW k \in Kids, KidEnds(k) \/ Borrow(k)
      PROVE  LookInv(n)'
  BY <1>18 DEF KidEnds, lockVars, Borrow
<1>19. CASE UNCHANGED vars
  BY <1>19 DEF vars, kidVars
<1> QED
  BY <1>1, <1>2, <1>3, <1>4, <1>5, <1>6, <1>7, <1>8, <1>9, <1>10, <1>11, <1>12, <1>13, <1>14, <1>15, <1>16, <1>17, <1>18, <1>19 DEF Next, Step, Recover, KidStep


-----------------------------------------------------------------------------
(* The inductive invariant holds in every reachable state. *)
LEMMA InitIInv == Init => IInv
<1> SUFFICES ASSUME Init
             PROVE  IInv
  OBVIOUS
<1> USE ProcAssumption DEF Init, Blank, Keepers, Proc, Kids
<1>1. TypeOK
  BY DEF TypeOK, PCs, Verdicts
<1>2. NoFileYet /\ FilesExist /\ Descriptors /\ OpenFileIsAtPath /\ MutexInv /\ AgedInv /\ OwnKids
  BY DEF NoFileYet, FilesExist, Descriptors, OpenFileIsAtPath, Holds, MutexInv, AgedInv, OwnKids,
         Inspecting
<1>3. \A m \in Masters : LookInv(m)
  BY DEF LookInv, PidRead
<1> QED
  BY <1>1, <1>2, <1>3 DEF IInv

LEMMA StepIInv == IInv /\ [Next]_vars => IInv'
BY TypeStep, FilesStep, DescriptorsStep, PathStep, MutexStep, AgedStep, OwnKidsStep, LookStep DEF IInv

THEOREM Invariance == Spec => []IInv
BY InitIInv, StepIInv, PTL DEF Spec

-----------------------------------------------------------------------------
(* Every variable keeps its type, for any processes and children. *)
THEOREM TypeCorrect == Spec => []TypeOK
<1>1. IInv => TypeOK
  BY DEF IInv
<1> QED
  BY <1>1, Invariance, PTL

(* On Windows a process that has its lock file open finds it at the path. *)
THEOREM OpenFileStays == Spec => []OpenFileIsAtPath
<1>1. IInv => OpenFileIsAtPath
  BY DEF IInv
<1> QED
  BY <1>1, Invariance, PTL

(* On Windows no two masters or activations ever own the lock together. *)
THEOREM MutualExclusion == Spec => []KeepersExclusive
<1>1. IInv => KeepersExclusive
  BY DEF IInv, Descriptors, OpenFileIsAtPath, KeepersExclusive, Keepers, Proc
<1> QED
  BY <1>1, Invariance, PTL

(* On Windows a portfolio child is admitted only under the only owner. *)
THEOREM BorrowersAreSafe == Spec => BorrowedFromTheOnlyOwner
<1>1. IInv /\ [Next]_vars =>
        [~UnlinkOpen =>
           \A k \in Kids : borrow[k] = "none" /\ borrow'[k] = "accepted"
                              => \A q \in Keepers : Holds(q) => q = k[1]]_vars
  <2> SUFFICES ASSUME IInv, Next, ~UnlinkOpen, NEW k \in Kids,
                      borrow[k] = "none", borrow'[k] = "accepted",
                      NEW q \in Keepers, Holds(q)
               PROVE  q = k[1]
    BY DEF vars
  <2>1. fd[q] /\ path = q
    BY DEF IInv, Descriptors, OpenFileIsAtPath, Keepers, Proc
  <2>2. PICK j \in Kids : Borrow(j)
    <3>1. CASE \E p \in Proc : TryCreate(p) \/ Step(p) \/ WriteFails(p) \/ Release(p)
                                \/ Crash(p) \/ Age(p)
      BY <3>1 DEF kidVars, Step, Recover, TryCreate, WriteState, CheckOwner, UnlinkAtExit, End,
                  EnterMutex, MutexTimeout, Retry, ReadPid, Probe, Judge, Override,
                  OverrideDenied, Recreate, WriteFails, Release, Crash, Age
    <3>2. CASE \E p \in Parents, s \in Slots : KidStep(p, s)
      BY <3>2 DEF KidStep, Popen, Register, Unregister, Flush
    <3>3. CASE \E j \in Kids : KidEnds(j)
      BY <3>3 DEF KidEnds
    <3> QED
      BY <3>1, <3>2, <3>3 DEF Next
  <2>3. RecordedPid = k[1]
    BY <2>2 DEF Borrow, IInv, TypeOK
  <2>4. k[1] # NoProc
    BY ProcAssumption DEF Kids
  <2> QED
    BY <2>1, <2>3, <2>4 DEF RecordedPid
<1> QED
  BY <1>1, Invariance, PTL DEF Spec, BorrowedFromTheOnlyOwner

(* On both platforms an override that removes the file it inspected removes *)
(* that of a dead owner without recorded live children.                     *)
THEOREM OverridesAreJustified == Spec => OverrideJustified
<1>1. IInv => [\A m \in Masters :
         (pc[m] = "unlink" /\ pc'[m] = "recreate" /\ path # NoProc /\ path = look[m].file
            /\ (look[m].alive = "dead" \/ ~ProbeMayFail))
           => ~Alive(path) /\ (text[path] = "full" => rec[path] \cap live = {})]_vars
  BY DEF IInv, LookInv, PidRead, Justified, Alive
<1> QED
  BY <1>1, Invariance, PTL DEF Spec, OverrideJustified

(* On both platforms recovery never undoes the recovery of a live master. *)
THEOREM RecoveriesStand == Spec => RecoveryNeverUndone
<1>1. IInv => [\A m \in Masters :
         (pc[m] = "unlink" /\ pc'[m] = "recreate" /\ ~ProbeMayFail)
           => ~(path \in guarded /\ Alive(path))]_vars
  <2> SUFFICES ASSUME IInv, NEW m \in Masters, pc[m] = "unlink", ~ProbeMayFail,
                      path \in guarded
               PROVE  ~Alive(path)
    BY DEF vars
  <2>1. path # NoProc /\ path = look[m].file
    BY ProcAssumption DEF IInv, LookInv, PidRead, TypeOK, Proc, Keepers
  <2> QED
    BY <2>1 DEF IInv, LookInv, PidRead, Justified, Alive
<1> QED
  BY <1>1, Invariance, PTL DEF Spec, RecoveryNeverUndone

-----------------------------------------------------------------------------
(* A stale lock q stays stale as long as it is there, as its owner is gone *)
(* and starts no more children, and master m reads what lets it override.  *)
Unhindered(m, q) ==
    /\ text[q] # "none"
    /\ path = q =>
         /\ pc[q] = "gone" /\ (IF text[q] = "full" THEN rec[q] \cap live = {} ELSE aged[q])
         /\ pc[m] \in {"readpid", "probe", "readkids", "unlink", "gone"}
         /\ pc[m] \in {"probe", "readkids"} =>
              look[m].pid = IF text[q] = "full" THEN q ELSE NoProc
         /\ pc[m] = "readkids" => look[m].alive = IF text[q] = "full" THEN "dead" ELSE "unknown"

LEMMA UnhinderedStep ==
    ASSUME NEW m \in Masters, NEW q \in Proc, ~ProbeMayFail, IInv, [Next]_vars, Unhindered(m, q)
    PROVE  Unhindered(m, q)'
<1> USE ProcAssumption DEF Unhindered, IInv, TypeOK, NoFileYet, Descriptors, OwnKids, MutexInv, Inspecting,
        Alive, Keepers, Proc, Kids, kidVars
<1>1. ASSUME NEW p \in Proc, TryCreate(p)
      PROVE  Unhindered(m, q)'
  BY <1>1 DEF TryCreate, CreateFile, Move
<1>2. ASSUME NEW p \in Proc, WriteState(p)
      PROVE  Unhindered(m, q)'
  BY <1>2 DEF WriteState, Move
<1>3. ASSUME NEW p \in Proc, WriteFails(p)
      PROVE  Unhindered(m, q)'
  BY <1>3 DEF WriteFails, CanUnlink, Move
<1>4. ASSUME NEW p \in Proc, CheckOwner(p) \/ UnlinkAtExit(p) \/ End(p) \/ Release(p)
      PROVE  Unhindered(m, q)'
  BY <1>4 DEF CheckOwner, Move, UnlinkAtExit, CanUnlink, End, Release
<1>5. ASSUME NEW p \in Proc, Crash(p)
      PROVE  Unhindered(m, q)'
  BY <1>5 DEF Crash, FreeMutex, Move
<1>6. ASSUME NEW p \in Proc, Age(p)
      PROVE  Unhindered(m, q)'
  BY <1>6 DEF Age
<1>7. ASSUME NEW n \in Masters, EnterMutex(n) \/ MutexTimeout(n)
      PROVE  Unhindered(m, q)'
  BY <1>7 DEF EnterMutex, MutexTimeout, Move
<1>8. ASSUME NEW n \in Masters, Retry(n)
      PROVE  Unhindered(m, q)'
  BY <1>8 DEF Retry, CreateGuarded, CreateFile, Move
<1>9. ASSUME NEW n \in Masters, ReadPid(n)
      PROVE  Unhindered(m, q)'
  BY <1>9 DEF ReadPid, RecordedPid, Blank, Move
<1>10. ASSUME NEW n \in Masters, Probe(n)
      PROVE  Unhindered(m, q)'
  BY <1>10 DEF Probe, Verdicts, Move
<1>11. ASSUME NEW n \in Masters, Judge(n)
      PROVE  Unhindered(m, q)'
  BY <1>11 DEF Judge, MayOverride, RecordedChildren, RecordedPid, FreeMutex, Move
<1>12. ASSUME NEW n \in Masters, Override(n) \/ OverrideDenied(n)
      PROVE  Unhindered(m, q)'
  BY <1>12 DEF Override, OverrideDenied, CanUnlink, FreeMutex, Move
<1>13. ASSUME NEW n \in Masters, Recreate(n)
      PROVE  Unhindered(m, q)'
  BY <1>13 DEF Recreate, CreateGuarded, CreateFile, FreeMutex, Move
<1>14. ASSUME NEW p \in Parents, NEW s \in Slots, Popen(p, s)
      PROVE  Unhindered(m, q)'
  BY <1>14 DEF Popen, lockVars
<1>15. ASSUME NEW p \in Parents, NEW s \in Slots, Register(p, s)
      PROVE  Unhindered(m, q)'
  BY <1>15 DEF Register, lockVars
<1>16. ASSUME NEW p \in Parents, NEW s \in Slots, Unregister(p, s)
      PROVE  Unhindered(m, q)'
  BY <1>16 DEF Unregister, lockVars
<1>17. ASSUME NEW p \in Parents, NEW s \in Slots, Flush(p, s)
      PROVE  Unhindered(m, q)'
  BY <1>17 DEF Flush, lockVars
<1>18. ASSUME NEW k \in Kids, KidEnds(k) \/ Borrow(k)
      PROVE  Unhindered(m, q)'
  BY <1>18 DEF KidEnds, Borrow, lockVars
<1>19. CASE UNCHANGED vars
  BY <1>19 DEF vars, kidVars
<1> QED
  BY <1>1, <1>2, <1>3, <1>4, <1>5, <1>6, <1>7, <1>8, <1>9, <1>10, <1>11, <1>12, <1>13, <1>14, <1>15, <1>16, <1>17, <1>18, <1>19
  DEF Next, Step, Recover, KidStep

(* A master that starts to inspect a lock whose owner died and whose       *)
(* children ended is never refused while that lock is there, on either     *)
(* platform and whatever the other processes do.                           *)
THEOREM StaleLocksAreRecovered == Spec => StaleLockIsRecovered
<1>1. ASSUME ~ProbeMayFail, NEW m \in Masters, NEW q \in Proc
      PROVE  Spec => [](pc[m] = "readpid" /\ Stale(q) => []~(pc[m] = "refused" /\ path = q))
  <2>1. IInv /\ pc[m] = "readpid" /\ Stale(q) => Unhindered(m, q)
    BY ProcAssumption DEF IInv, TypeOK, NoFileYet, FilesExist, Stale, Alive, Unhindered, Proc
  <2>2. IInv /\ [Next]_vars /\ Unhindered(m, q) => Unhindered(m, q)'
    BY <1>1, UnhinderedStep
  <2>3. Unhindered(m, q) => ~(pc[m] = "refused" /\ path = q)
    BY DEF Unhindered
  <2> QED
    BY <2>1, <2>2, <2>3, Invariance, PTL DEF Spec
<1> QED
  BY <1>1 DEF StaleLockIsRecovered
=============================================================================
