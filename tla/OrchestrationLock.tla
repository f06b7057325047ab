-------------------------- MODULE OrchestrationLock --------------------------
(***************************************************************************)
(* The machine-wide lock file .orchestrator.lock.  Three programs own it:  *)
(*   - the cross-sector master (orchestration/run_all.py), which alone     *)
(*     recovers a stale lock, under an OS advisory "recovery" mutex;       *)
(*   - the Stage 12 activation transaction (industrials/machinery);        *)
(*   - a portfolio pipeline started directly (portfolio_layer/             *)
(*     orchestration/18), which closes its descriptor once it has written. *)
(* A portfolio pipeline started by an owner borrows the owner's lock.      *)
(*                                                                         *)
(* A process is one incarnation of a program: _holder_alive compares the   *)
(* creation time of a live pid with the recorded start, so a pid names one *)
(* incarnation.  Every process creates at most one lock file, so the file  *)
(* (inode) at the path is named by its creator.                            *)
(***************************************************************************)
EXTENDS Naturals, FiniteSets

CONSTANTS
    Masters,       \* run_all.py processes
    Activations,   \* stage12_activation_transaction.py processes
    Directs,       \* 18_run_portfolio_pipeline.py processes with no owner in their environment
    Parents,       \* the processes that start children
    Slots,         \* the children each of them may start
    NoProc,        \* no process
    UnlinkOpen,    \* TRUE on POSIX; FALSE on Windows, where a file another process has open stays
    ProbeMayFail   \* whether _pid_alive may answer None for a recorded pid

Keepers == Masters \cup Activations     \* the owners that keep their descriptor open
Proc == Keepers \cup Directs
Kids == Parents \X Slots                \* a child is <<its parent, its slot>>

ASSUME ProcAssumption ==
    /\ Masters \cap Activations = {}
    /\ Keepers \cap Directs = {}
    /\ Parents \subseteq Proc
    /\ NoProc \notin Proc
ASSUME PlatformAssumption == UnlinkOpen \in BOOLEAN /\ ProbeMayFail \in BOOLEAN

VARIABLES
    pc,        \* where each process is
    path,      \* the creator of the file now at the lock's path, NoProc when there is none
    text,      \* what each process' file holds: "none" (no file yet), "torn" (empty), "full"
    rec,       \* the children each file records
    aged,      \* whether a file was last written more than stale_after_sec ago
    fd,        \* whether each process holds its file's descriptor open
    mutex,     \* the holder of the recovery mutex
    look,      \* what a recovering master has read so far
    guarded,   \* the masters that created their file inside the recovery mutex
    live,      \* the child processes that are alive
    lane,      \* how far the parent is with each child
    children,  \* the parent's in-memory set of registered children
    borrow     \* what a portfolio child found when it checked its parent's lock

vars == <<pc, path, text, rec, aged, fd, mutex, look, guarded, live, lane, children, borrow>>
kidVars == <<live, lane, children, borrow>>

Inspecting == {"readpid", "probe", "readkids", "unlink", "recreate"}
PCs == {"idle", "lockwait", "retry", "write", "hold", "closed", "matched",
        "released", "refused", "gone"} \cup Inspecting
Verdicts == {"alive", "dead", "unknown"}
Blank == [file |-> NoProc, pid |-> NoProc, alive |-> "unknown"]

TypeOK ==
    /\ pc \in [Proc -> PCs]
    /\ path \in Proc \cup {NoProc}
    /\ text \in [Proc -> {"none", "torn", "full"}]
    /\ rec \in [Proc -> SUBSET Kids]
    /\ aged \in [Proc -> BOOLEAN]
    /\ fd \in [Proc -> BOOLEAN]
    /\ mutex \in Masters \cup {NoProc}
    /\ look \in [Masters -> [file : Proc \cup {NoProc}, pid : Proc \cup {NoProc},
                             alive : Verdicts]]
    /\ guarded \in SUBSET Masters
    /\ live \in SUBSET Kids
    /\ lane \in [Kids -> {"idle", "popen", "registering", "wait", "reaping", "done"}]
    /\ children \in [Proc -> SUBSET Kids]
    /\ borrow \in [Kids -> {"none", "accepted", "rejected"}]

Init ==
    /\ pc = [p \in Proc |-> "idle"]
    /\ path = NoProc
    /\ text = [p \in Proc |-> "none"]
    /\ rec = [p \in Proc |-> {}]
    /\ aged = [p \in Proc |-> FALSE]
    /\ fd = [p \in Proc |-> FALSE]
    /\ mutex = NoProc
    /\ look = [m \in Masters |-> Blank]
    /\ guarded = {}
    /\ live = {}
    /\ lane = [k \in Kids |-> "idle"]
    /\ children = [p \in Proc |-> {}]
    /\ borrow = [k \in Kids |-> "none"]

-----------------------------------------------------------------------------
(* The file at the path *)

Alive(p) == pc[p] \notin {"idle", "gone"}

(* The owner the file at the path records: a reader that arrives between   *)
(* the truncation and the write of _write_state finds an empty file.       *)
RecordedPid == IF path # NoProc /\ text[path] = "full" THEN path ELSE NoProc
RecordedChildren == IF RecordedPid # NoProc THEN rec[path] ELSE {}

Move(p, s) == pc' = [pc EXCEPT ![p] = s]

(* O_CREAT | O_EXCL succeeded. *)
CreateFile(p) ==
    /\ path' = p
    /\ text' = [text EXCEPT ![p] = "torn"]
    /\ aged' = [aged EXCEPT ![p] = FALSE]
    /\ fd' = [fd EXCEPT ![p] = TRUE]
    /\ Move(p, "write")

(* Path.unlink: Windows refuses while some process holds the file open. *)
CanUnlink == (path # NoProc /\ fd[path]) => UnlinkOpen

FreeMutex_Taken(p) == mutex' = IF mutex = p THEN NoProc ELSE p
FreeMutex_Kept(p) == mutex' = mutex
FreeMutex(p) == mutex' = IF mutex = p THEN NoProc ELSE mutex

-----------------------------------------------------------------------------
(* Taking the lock *)

(* The first O_EXCL attempt, outside the mutex.  Only a master goes on to  *)
(* recovery; the others fail closed.                                       *)
TryCreate(p) ==
    /\ pc[p] = "idle"
    /\ \/ path = NoProc /\ CreateFile(p)
       \/ /\ path # NoProc
          /\ Move(p, IF p \in Masters THEN "lockwait" ELSE "refused")
          /\ UNCHANGED <<path, text, aged, fd>>
    /\ UNCHANGED <<rec, mutex, look, guarded, kidVars>>

EnterMutex_Always(m) ==
    /\ pc[m] = "lockwait"
    /\ mutex' = m
    /\ Move(m, "retry")
    /\ UNCHANGED <<path, text, rec, aged, fd, look, guarded, kidVars>>

EnterMutex(m) ==
    /\ pc[m] = "lockwait" /\ mutex = NoProc
    /\ mutex' = m
    /\ Move(m, "retry")
    /\ UNCHANGED <<path, text, rec, aged, fd, look, guarded, kidVars>>

(* msvcrt.LK_LOCK gives up after ten tries; flock waits for ever. *)
MutexTimeout(m) ==
    /\ pc[m] = "lockwait" /\ mutex # NoProc /\ ~UnlinkOpen
    /\ Move(m, "refused")
    /\ UNCHANGED <<path, text, rec, aged, fd, mutex, look, guarded, kidVars>>

(* Creating inside the mutex leaves it: the state is written outside. *)
CreateGuarded(m) ==
    /\ CreateFile(m)
    /\ mutex' = NoProc
    /\ guarded' = guarded \cup {m}

Retry(m) ==
    /\ pc[m] = "retry"
    /\ \/ path = NoProc /\ CreateGuarded(m)
       \/ /\ path # NoProc
          /\ Move(m, "readpid")
          /\ UNCHANGED <<path, text, aged, fd, mutex, guarded>>
    /\ UNCHANGED <<rec, look, kidVars>>

(* The inspection reads the path three times; the file may change between. *)
ReadPid(m) ==
    /\ pc[m] = "readpid"
    /\ look' = [look EXCEPT ![m] = [Blank EXCEPT !.file = path, !.pid = RecordedPid]]
    /\ Move(m, "probe")
    /\ UNCHANGED <<path, text, rec, aged, fd, mutex, guarded, kidVars>>

Probe(m) ==
    /\ pc[m] = "probe"
    /\ \E v \in Verdicts :
        /\ v = "unknown" => look[m].pid = NoProc \/ ProbeMayFail
        /\ v = "alive" => look[m].pid # NoProc /\ Alive(look[m].pid)
        /\ v = "dead" => look[m].pid # NoProc /\ ~Alive(look[m].pid)
        /\ look' = [look EXCEPT ![m].alive = v]
    /\ Move(m, "readkids")
    /\ UNCHANGED <<path, text, rec, aged, fd, mutex, guarded, kidVars>>

MayOverride_Orphaning(m) ==
    \/ look[m].alive = "dead"
    \/ look[m].alive = "unknown" /\ path # NoProc /\ aged[path]

MayOverride_KnownOwner(m) == look[m].alive = "dead" /\ RecordedChildren \cap live = {}

MayOverride(m) ==
    \/ look[m].alive = "dead" /\ RecordedChildren \cap live = {}
    \/ look[m].alive = "unknown" /\ path # NoProc /\ aged[path]

(* The recorded children and the age are read, and the verdict falls. *)
Judge(m) ==
    /\ pc[m] = "readkids"
    /\ \/ MayOverride(m) /\ Move(m, "unlink") /\ UNCHANGED mutex
       \/ ~MayOverride(m) /\ Move(m, "refused") /\ FreeMutex(m)
    /\ UNCHANGED <<path, text, rec, aged, fd, look, guarded, kidVars>>

Override(m) ==
    /\ pc[m] = "unlink" /\ CanUnlink
    /\ path' = NoProc
    /\ Move(m, "recreate")
    /\ UNCHANGED <<text, rec, aged, fd, mutex, look, guarded, kidVars>>

(* PermissionError out of __enter__. *)
OverrideDenied(m) ==
    /\ pc[m] = "unlink" /\ ~CanUnlink
    /\ Move(m, "refused") /\ FreeMutex(m)
    /\ UNCHANGED <<path, text, rec, aged, fd, look, guarded, kidVars>>

Recreate(m) ==
    /\ pc[m] = "recreate"
    /\ \/ path = NoProc /\ CreateGuarded(m)
       \/ /\ path # NoProc
          /\ Move(m, "refused") /\ FreeMutex(m)
          /\ UNCHANGED <<path, text, aged, fd, guarded>>
    /\ UNCHANGED <<rec, look, kidVars>>

WriteState_Closing(p) ==
    /\ pc[p] = "write"
    /\ text' = [text EXCEPT ![p] = "full"]
    /\ fd' = [fd EXCEPT ![p] = FALSE]
    /\ Move(p, "hold")
    /\ UNCHANGED <<path, rec, aged, mutex, look, guarded, kidVars>>

(* The first _write_state.  A direct portfolio run closes its descriptor. *)
WriteState(p) ==
    /\ pc[p] = "write"
    /\ text' = [text EXCEPT ![p] = "full"]
    /\ fd' = IF p \in Directs THEN [fd EXCEPT ![p] = FALSE] ELSE fd
    /\ Move(p, "hold")
    /\ UNCHANGED <<path, rec, aged, mutex, look, guarded, kidVars>>

(* The write raises: a master closes and unlinks, a direct run unlinks     *)
(* before it closes, an activation leaves the file behind.                 *)
WriteFails(p) ==
    /\ pc[p] = "write"
    /\ \/ /\ p \in Masters
          /\ path' = IF CanUnlink \/ path = p THEN NoProc ELSE path
       \/ /\ p \in Directs
          /\ path' = IF CanUnlink THEN NoProc ELSE path
       \/ p \in Activations /\ UNCHANGED path
    /\ fd' = [fd EXCEPT ![p] = FALSE]
    /\ Move(p, "gone")
    /\ UNCHANGED <<text, rec, aged, mutex, look, guarded, kidVars>>

-----------------------------------------------------------------------------
(* Releasing the lock, and crashing *)

(* A lane is over when its child was reaped; only then does the owner exit. *)
Release(p) ==
    /\ pc[p] = "hold"
    /\ \A k \in Kids : k[1] = p => lane[k] \in {"idle", "done"}
    /\ fd' = [fd EXCEPT ![p] = FALSE]
    /\ Move(p, "closed")
    /\ UNCHANGED <<path, text, rec, aged, mutex, look, guarded, kidVars>>

(* A master unlinks whatever is at the path; the others check the recorded *)
(* pid first.                                                              *)
CheckOwner(p) ==
    /\ pc[p] = "closed" /\ p \notin Masters
    /\ Move(p, IF RecordedPid = p THEN "matched" ELSE "released")
    /\ UNCHANGED <<path, text, rec, aged, fd, mutex, look, guarded, kidVars>>

UnlinkAtExit(p) ==
    /\ pc[p] = IF p \in Masters THEN "closed" ELSE "matched"
    /\ path' = IF CanUnlink THEN NoProc ELSE path
    /\ Move(p, "released")
    /\ UNCHANGED <<text, rec, aged, fd, mutex, look, guarded, kidVars>>

End(p) ==
    /\ pc[p] \in {"released", "refused"}
    /\ Move(p, "gone")
    /\ UNCHANGED <<path, text, rec, aged, fd, mutex, look, guarded, kidVars>>

(* The process dies: the OS closes its descriptor and frees its mutex, the *)
(* file and the children stay.                                             *)
Crash(p) ==
    /\ Alive(p)
    /\ fd' = [fd EXCEPT ![p] = FALSE]
    /\ FreeMutex(p)
    /\ Move(p, "gone")
    /\ UNCHANGED <<path, text, rec, aged, look, guarded, kidVars>>

(* stale_after_sec passes without a write.  Six hours outlast any write or *)
(* inspection that is under way.                                           *)
Age(q) ==
    /\ path = q /\ ~aged[q]
    /\ \A p \in Proc : pc[p] \notin Inspecting \cup {"write"}
    /\ \A p \in Proc : Alive(p) => text[p] # "torn"
    /\ aged' = [aged EXCEPT ![q] = TRUE]
    /\ UNCHANGED <<pc, path, text, rec, fd, mutex, look, guarded, kidVars>>

-----------------------------------------------------------------------------
(* The owner's children *)

lockVars == <<pc, path, fd, mutex, look, guarded>>

(* Popen returned.  A direct portfolio run registers none of its children. *)
Popen(p, s) ==
    LET k == <<p, s>> IN
    /\ pc[p] = "hold" /\ lane[k] = "idle"
    /\ live' = live \cup {k}
    /\ lane' = [lane EXCEPT ![k] = IF p \in Keepers THEN "popen" ELSE "wait"]
    /\ UNCHANGED <<lockVars, text, rec, aged, children, borrow>>

(* register_child and unregister_child change the set and truncate the     *)
(* file under the state lock, Flush writes it; both go to the process' own *)
(* file, whatever is at the path.                                          *)
Register(p, s) ==
    LET k == <<p, s>> IN
    /\ pc[p] = "hold" /\ lane[k] = "popen" /\ text[p] = "full"
    /\ children' = [children EXCEPT ![p] = @ \cup {k}]
    /\ text' = [text EXCEPT ![p] = "torn"]
    /\ aged' = [aged EXCEPT ![p] = FALSE]
    /\ lane' = [lane EXCEPT ![k] = "registering"]
    /\ UNCHANGED <<lockVars, rec, live, borrow>>

Unregister(p, s) ==
    LET k == <<p, s>> IN
    /\ pc[p] = "hold" /\ lane[k] = "wait" /\ k \notin live
    /\ IF p \in Keepers
         THEN /\ text[p] = "full"
              /\ text' = [text EXCEPT ![p] = "torn"]
              /\ aged' = [aged EXCEPT ![p] = FALSE]
              /\ lane' = [lane EXCEPT ![k] = "reaping"]
         ELSE lane' = [lane EXCEPT ![k] = "done"] /\ UNCHANGED <<text, aged>>
    /\ children' = [children EXCEPT ![p] = @ \ {k}]
    /\ UNCHANGED <<lockVars, rec, live, borrow>>

Flush(p, s) ==
    LET k == <<p, s>> IN
    /\ pc[p] = "hold" /\ lane[k] \in {"registering", "reaping"}
    /\ text' = [text EXCEPT ![p] = "full"]
    /\ rec' = [rec EXCEPT ![p] = children[p]]
    /\ lane' = [lane EXCEPT ![k] = IF @ = "registering" THEN "wait" ELSE "done"]
    /\ UNCHANGED <<lockVars, aged, live, children, borrow>>

(* The child ends, by itself or killed at its timeout. *)
KidEnds(k) ==
    /\ k \in live
    /\ live' = live \ {k}
    /\ UNCHANGED <<lockVars, text, rec, aged, lane, children, borrow>>

Borrow_Unchecked(k) ==
    /\ k \in live /\ k[1] \in Keepers /\ borrow[k] = "none"
    /\ borrow' = [borrow EXCEPT ![k] = "accepted"]
    /\ UNCHANGED <<lockVars, text, rec, aged, lane, children, live>>

(* A portfolio child compares the recorded pid with its parent's; a read   *)
(* that finds the file empty counts as a mismatch.                         *)
Borrow(k) ==
    /\ k \in live /\ k[1] \in Keepers /\ borrow[k] = "none"
    /\ \/ /\ RecordedPid = k[1]
          /\ borrow' = [borrow EXCEPT ![k] = "accepted"]
          /\ UNCHANGED live
       \/ /\ RecordedPid # k[1]
          /\ borrow' = [borrow EXCEPT ![k] = "rejected"]
          /\ live' = live \ {k}
    /\ UNCHANGED <<lockVars, text, rec, aged, lane, children>>

-----------------------------------------------------------------------------
Recover(m) ==
    \/ EnterMutex(m) \/ MutexTimeout(m) \/ Retry(m) \/ ReadPid(m) \/ Probe(m)
    \/ Judge(m) \/ Override(m) \/ OverrideDenied(m) \/ Recreate(m)

(* What a process does once started, as long as it does not die. *)
Step(p) ==
    \/ WriteState(p) \/ CheckOwner(p) \/ UnlinkAtExit(p) \/ End(p)
    \/ p \in Masters /\ Recover(p)

KidStep(p, s) == Popen(p, s) \/ Register(p, s) \/ Unregister(p, s) \/ Flush(p, s)

Next ==
    \/ \E p \in Proc : TryCreate(p) \/ Step(p) \/ WriteFails(p) \/ Release(p) \/ Crash(p) \/ Age(p)
    \/ \E p \in Parents, s \in Slots : KidStep(p, s)
    \/ \E k \in Kids : KidEnds(k) \/ Borrow(k)

Spec == Init /\ [][Next]_vars

(* A process that was started is scheduled until it ends or dies. *)
FairSpec == Spec /\ \A p \in Proc : WF_vars(Step(p))

-----------------------------------------------------------------------------
(* Properties *)

Holds(p) == pc[p] = "hold"

(* Where a file that is open cannot be removed (Windows), a process that   *)
(* has its lock file open finds that file, and no other, at the path: no   *)
(* race of recoveries, releases and crashes takes it away.                 *)
OpenFileIsAtPath == ~UnlinkOpen => \A p \in Proc : fd[p] => path = p

(* Under the same platform at most one master or activation owns the       *)
(* machine at a time (the class comment: "two masters can't run            *)
(* concurrently").                                                         *)
KeepersExclusive ==
    ~UnlinkOpen => \A p, q \in Keepers : Holds(p) /\ Holds(q) => p = q

(* Under the same platform a portfolio child is let in only while no other *)
(* process that keeps its lock open owns the machine, even when its own    *)
(* parent has died.                                                        *)
BorrowedFromTheOnlyOwner ==
    [][~UnlinkOpen =>
         \A k \in Kids : borrow[k] = "none" /\ borrow'[k] = "accepted"
                            => \A q \in Keepers : Holds(q) => q = k[1]]_vars

(* When the file that recovery removes is the one it read the pid from,    *)
(* its owner is dead and no child recorded in it is alive: the pid is      *)
(* probed before the children are read, so a child registered by a live    *)
(* owner cannot slip in between.                                           *)
OverrideJustified ==
    [][\A m \in Masters :
         (pc[m] = "unlink" /\ pc'[m] = "recreate" /\ path # NoProc /\ path = look[m].file
            /\ (look[m].alive = "dead" \/ ~ProbeMayFail))
           => ~Alive(path) /\ (text[path] = "full" => rec[path] \cap live = {})]_vars

(* "two recovery processes can both classify the old owner as dead and one *)
(* can remove the other's newly created lock": the mutex prevents it, so   *)
(* recovery never removes the lock of a live master that took it inside    *)
(* the mutex, on any platform.                                             *)
RecoveryNeverUndone ==
    [][\A m \in Masters :
         (pc[m] = "unlink" /\ pc'[m] = "recreate" /\ ~ProbeMayFail)
           => ~(path \in guarded /\ Alive(path))]_vars

(* Every contender that was started ends up owning the lock or refused, as *)
(* the mutex never stays taken.                                            *)
ContendersSettle ==
    \A p \in Proc : pc[p] \in {"lockwait", "write"} ~> pc[p] \in {"hold", "refused", "gone"}

Stale(q) ==
    /\ path = q /\ ~Alive(q)
    /\ IF text[q] = "full" THEN rec[q] \cap live = {} ELSE aged[q]

(* A lock whose owner died and whose children ended, or that was torn and  *)
(* aged, does not shut out a master: one that starts to inspect such a     *)
(* lock is never refused while that lock is still there.                   *)
StaleLockIsRecovered ==
    ~ProbeMayFail =>
        \A m \in Masters, q \in Proc :
            [](pc[m] = "readpid" /\ Stale(q) => []~(pc[m] = "refused" /\ path = q))
=============================================================================
