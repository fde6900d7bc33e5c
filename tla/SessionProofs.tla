--------------------------- MODULE SessionProofs ---------------------------
(***************************************************************************)
(* The run lock and the run-state file, for any number of processes: the   *)
(* command line keeps custody of the repository, its owner file tells the  *)
(* truth, and what can be lost from the state file is lost by overlapping  *)
(* processes only.                                                         *)
(***************************************************************************)
EXTENDS RunSession, TLAPS

LEMMA NoStateFacts ==
    /\ NoState.run = NoProc /\ NoState.records = {}
    /\ NoState \notin RunStates
    /\ \A s \in RunStates : s.run \in Procs /\ s.run # NoProc /\ s.records \subseteq Records
BY ProcsAssumption DEF NoState, RunStates

LEMMA TypeInit == Init => TypeOK
BY DEF Init, TypeOK, PCs, Ended

LEMMA NewStates ==
    /\ \A p \in Procs : NewRun(p) \in RunStates
    /\ \A s \in RunStates, r \in Records : Recorded(s, r) \in RunStates
BY DEF NewRun, Recorded, RunStates

(* A process that loops has a run state, so what it saves has one too.     *)
HasRun(p) == pc[p] = "looping" => run_state[p] \in RunStates

HasRunInv == \A p \in Procs : HasRun(p)

LEMMA TypeNext == TypeOK /\ HasRunInv /\ [Next]_vars => TypeOK' /\ HasRunInv'
<1> SUFFICES ASSUME TypeOK, HasRunInv, [Next]_vars PROVE TypeOK' /\ HasRunInv'
  OBVIOUS
<1> USE DEF TypeOK, HasRunInv, HasRun, PCs, Ended, InLock, Named, Unsafe, GoTo, shared, signals
<1>1. CASE UNCHANGED vars
  BY <1>1 DEF vars
<1>2. ASSUME NEW p \in Procs, Step(p) PROVE TypeOK' /\ HasRunInv'
  <2>1. CASE Orchestrate(p)
    BY <2>1 DEF Orchestrate, Starts, Alive
  <2>2. CASE Resume(p)
    BY <2>2 DEF Resume, Starts, Alive, load_state
  <2>3. CASE Configure(p) \/ AbortCleanup(p)
    BY <2>3 DEF Configure, AbortCleanup, Starts, Alive, save_state
  <2>4. CASE Acquire(p) \/ TimesOut(p) \/ ReadOwner(p)
    BY <2>4 DEF Acquire, TimesOut, ReadOwner
  <2>5. CASE OpenOwner(p) \/ WriteOwner(p) \/ EnterLock(p)
    BY <2>5 DEF OpenOwner, WriteOwner, EnterLock
  <2>6. CASE LeaveLock(p)
    BY <2>6 DEF LeaveLock, UnlinkThenRelease
  <2>7. CASE CreateRun(p)
    BY <2>7, NewStates DEF CreateRun, save_state
  <2>8. CASE Record(p)
    <3>1. PICK r \in Records :
              /\ run_state' = [run_state EXCEPT ![p] = Recorded(run_state[p], r)]
              /\ state_file' = Recorded(run_state[p], r)
      BY <2>8 DEF Record, save_state
    <3>2. Recorded(run_state[p], r) \in RunStates
      BY <2>8, NewStates DEF Record
    <3> QED
      BY <2>8, <3>1, <3>2 DEF Record
  <2>9. CASE LoopEnds(p)
    BY <2>9 DEF LoopEnds, save_state
  <2>10. CASE InterruptLoop(p) \/ InterruptLock(p)
    BY <2>10 DEF InterruptLoop, InterruptLock
  <2>11. CASE SaveOnInterrupt(p) \/ InterruptSave(p) \/ Crash(p)
    BY <2>11 DEF SaveOnInterrupt, InterruptSave, Crash, save_state, Drop
  <2> QED
    BY <1>2, <2>1, <2>2, <2>3, <2>4, <2>5, <2>6, <2>7, <2>8, <2>9, <2>10, <2>11 DEF Step
<1> QED
  BY <1>1, <1>2 DEF Next

-----------------------------------------------------------------------------
(* The guard has one holder, and the owner file follows it.                *)

GuardInv ==
    /\ \A p \in Procs : pc[p] \in InLock => guard = p
    /\ guard # NoProc => pc[guard] \in InLock \cup {"saving"}

CustodyInv == TypeOK /\ HasRunInv /\ GuardInv /\ OwnerFileTruthful

LEMMA CustodyInit == Init => CustodyInv
BY TypeInit DEF Init, CustodyInv, HasRunInv, HasRun, GuardInv, InLock, Named, Unsafe,
   OwnerFileTruthful

LEMMA CustodyNext == CustodyInv /\ [Next]_vars => CustodyInv'
<1> SUFFICES ASSUME CustodyInv, [Next]_vars PROVE GuardInv' /\ OwnerFileTruthful'
  BY TypeNext DEF CustodyInv
<1> USE DEF CustodyInv, TypeOK, GuardInv, OwnerFileTruthful, InLock, Named, Unsafe, GoTo,
           shared, signals
<1>1. CASE UNCHANGED vars
  BY <1>1 DEF vars
<1>2. ASSUME NEW p \in Procs, Step(p) PROVE GuardInv' /\ OwnerFileTruthful'
  <2> USE ProcsAssumption
  <2>1. CASE Orchestrate(p) \/ Resume(p) \/ Configure(p) \/ AbortCleanup(p)
    BY <2>1 DEF Orchestrate, Resume, Configure, AbortCleanup, Starts
  <2>2. CASE Acquire(p) \/ TimesOut(p) \/ ReadOwner(p)
    BY <2>2 DEF Acquire, TimesOut, ReadOwner, GuardFree
  <2>3. CASE OpenOwner(p) \/ WriteOwner(p) \/ EnterLock(p)
    BY <2>3 DEF OpenOwner, WriteOwner, EnterLock
  <2>4. CASE LeaveLock(p)
    BY <2>4 DEF LeaveLock, UnlinkThenRelease
  <2>5. CASE CreateRun(p) \/ Record(p) \/ LoopEnds(p)
    BY <2>5 DEF CreateRun, Record, LoopEnds
  <2>6. CASE InterruptLoop(p) \/ InterruptLock(p)
    BY <2>6 DEF InterruptLoop, InterruptLock
  <2>7. CASE SaveOnInterrupt(p) \/ InterruptSave(p) \/ Crash(p)
    BY <2>7 DEF SaveOnInterrupt, InterruptSave, Crash, Drop, Alive, Ended
  <2> QED
    BY <1>2, <2>1, <2>2, <2>3, <2>4, <2>5, <2>6, <2>7 DEF Step
<1> QED
  BY <1>1, <1>2 DEF Next

(* The owner file names the driving process, and never one that is past    *)
(* the unlink: only a crash, or a Ctrl-C within orchestration_lock while   *)
(* its file has the name, leaves the name behind.                          *)
THEOREM OwnerFileIsTruthful == Spec => []OwnerFileTruthful
<1>1. CustodyInv => OwnerFileTruthful
  BY DEF CustodyInv
<1> QED
  BY CustodyInit, CustodyNext, <1>1, PTL DEF Spec

(* Every state of the command line is well typed.                          *)
THEOREM SessionTypeCorrect == Spec => []TypeOK
<1>1. CustodyInv => TypeOK
  BY DEF CustodyInv
<1> QED
  BY CustodyInit, CustodyNext, <1>1, PTL DEF Spec

-----------------------------------------------------------------------------
(* Every step is a step of RunCustody, or none.                            *)

standing == [p \in Procs |-> Standing(p)]

LEMMA StandingOf ==
    ASSUME NEW p \in Procs, TypeOK
    PROVE  /\ pc[p] \in InLock => Standing(p) = "driving"
           /\ pc[p] \in {"turned_away", "refused"} => Standing(p) = "refused"
           /\ pc[p] \in {"ended", "crashed"} => Standing(p) = "over"
           /\ pc[p] = "saving" /\ guard = p => Standing(p) = "driving"
           /\ pc[p] = "saving" /\ guard # p => Standing(p) = "over"
           /\ pc[p] \in {"start", "ready", "locking"} => Standing(p) = "out"
BY DEF Standing, InLock, Named, Unsafe, TypeOK

(* The guard changes hands only between p and nobody.                      *)
GuardMoves(p) ==
    \/ guard' = guard
    \/ guard = NoProc /\ guard' = p
    \/ guard = p /\ guard' = NoProc

LEMMA OnlyOneStands ==
    ASSUME CustodyInv, CustodyInv', NEW p \in Procs, NEW l, GoTo(p, l), GuardMoves(p)
    PROVE  standing' = [standing EXCEPT ![p] = Standing(p)']
<1>1. ASSUME NEW q \in Procs, q # p PROVE Standing(q)' = Standing(q)
  <2>1. pc'[q] = pc[q]
    BY <1>1 DEF GoTo, CustodyInv, TypeOK
  <2>2. (guard' = q) <=> (guard = q)
    BY <1>1, ProcsAssumption DEF GuardMoves
  <2> QED
    BY <2>1, <2>2 DEF Standing
<1> QED
  BY <1>1 DEF standing

CustodyStep == [Custody!Next]_standing

LEMMA StepKeepsCustody ==
    ASSUME CustodyInv, CustodyInv', [Next]_vars
    PROVE  CustodyStep
<1> USE DEF CustodyInv
<1>1. CASE UNCHANGED vars
  BY <1>1 DEF vars, CustodyStep, standing, Standing
<1>2. ASSUME NEW p \in Procs, Step(p) PROVE CustodyStep
  <2> USE ProcsAssumption
  <2> DEFINE Moves == \E l : GoTo(p, l) /\ GuardMoves(p)
  <2>0. /\ \A q \in Procs : standing[q] = Standing(q)
        /\ TypeOK /\ TypeOK'
    BY DEF standing
  <2>1. Moves /\ Standing(p)' = Standing(p) => CustodyStep
    BY <2>0, OnlyOneStands DEF CustodyStep, standing
  <2>2. Moves /\ Standing(p)' = "over" => CustodyStep
    BY <2>0, <2>1, OnlyOneStands
       DEF CustodyStep, Custody!Next, Custody!Leave, Custody!Becomes, standing
  <2>3. GoTo(p, "locked") \/ GoTo(p, "turned_away") \/ GoTo(p, "ended")
           \/ GoTo(p, "saving") \/ GoTo(p, "crashed")
        => pc'[p] \in {"locked", "turned_away", "ended", "saving", "crashed"}
    BY <2>0 DEF GoTo, TypeOK
  <2> HIDE DEF CustodyInv, Moves
  <2>4. CASE Orchestrate(p) \/ Resume(p) \/ AbortCleanup(p)
    <3>1. GoTo(p, "ended") \/ GoTo(p, "locking") \/ GoTo(p, "ready")
      BY <2>4 DEF Orchestrate, Resume, AbortCleanup
    <3>2. pc[p] = "start" /\ guard' = guard
      BY <2>4 DEF Orchestrate, Resume, AbortCleanup, Starts, shared
    <3>3. pc'[p] \in {"ended", "locking", "ready"}
      BY <2>0, <3>1 DEF GoTo, TypeOK
    <3>4. Standing(p) = "out"
      BY <2>0, <3>2, StandingOf
    <3>5. Standing(p)' = "over" \/ Standing(p)' = "out"
      <4>1. CASE pc'[p] = "ended"
        BY <4>1 DEF Standing, InLock, Named, Unsafe
      <4>2. CASE pc'[p] \in {"locking", "ready"}
        BY <4>2 DEF Standing, InLock, Named, Unsafe
      <4> QED
        BY <3>3, <4>1, <4>2
    <3> QED
      BY <2>1, <2>2, <3>1, <3>2, <3>4, <3>5 DEF Moves, GuardMoves
  <2>5. CASE Acquire(p)
    <3>1. GoTo(p, "locked") /\ GuardMoves(p) /\ pc[p] = "locking" /\ guard = NoProc
      BY <2>5 DEF Acquire, GuardFree, GuardMoves
    <3>2. Standing(p) = "out" /\ Standing(p)' = "driving"
      BY <2>0, <3>1, StandingOf DEF GoTo, TypeOK, InLock, Named, Unsafe, Standing
    <3>3. ASSUME NEW q \in Procs PROVE standing[q] # "driving"
      <4>1. pc[q] \notin InLock /\ guard # q
        BY <3>1 DEF CustodyInv, GuardInv
      <4> QED
        BY <2>0, <4>1 DEF Standing
    <3> QED
      BY <2>0, <3>1, <3>2, <3>3, OnlyOneStands
         DEF CustodyStep, Custody!Next, Custody!Take, Custody!Becomes, standing
  <2>6. CASE TimesOut(p)
    <3>1. GoTo(p, "turned_away") /\ guard' = guard /\ pc[p] = "locking" /\ guard # NoProc
      BY <2>6 DEF TimesOut, GuardFree, shared
    <3>2. Standing(p) = "out" /\ Standing(p)' = "refused"
      BY <2>0, <3>1, StandingOf DEF GoTo, TypeOK, Standing
    <3>3. guard \in Procs /\ Standing(guard) = "driving"
      BY <2>0, <3>1, StandingOf DEF CustodyInv, GuardInv, TypeOK
    <3> QED
      BY <2>0, <3>1, <3>2, <3>3, OnlyOneStands
         DEF CustodyStep, Custody!Next, Custody!TurnAway, Custody!Becomes, GuardMoves, standing
  <2>7. CASE Configure(p) \/ ReadOwner(p)
    <3>1. /\ GoTo(p, "locking") \/ GoTo(p, "refused")
          /\ guard' = guard
          /\ \/ pc[p] = "ready" /\ pc'[p] = "locking"
             \/ pc[p] = "turned_away" /\ pc'[p] = "refused"
      BY <2>0, <2>7 DEF Configure, ReadOwner, GoTo, TypeOK, shared
    <3>2. CASE pc[p] = "ready" /\ pc'[p] = "locking"
      <4>1. Standing(p) = "out" /\ Standing(p)' = "out"
        BY <2>0, <3>2, StandingOf DEF Standing, InLock, Named, Unsafe
      <4> QED
        BY <2>1, <3>1, <4>1 DEF Moves, GuardMoves
    <3>3. CASE pc[p] = "turned_away" /\ pc'[p] = "refused"
      <4>1. Standing(p) = "refused" /\ Standing(p)' = "refused"
        BY <2>0, <3>3, StandingOf DEF Standing, InLock, Named, Unsafe
      <4> QED
        BY <2>1, <3>1, <4>1 DEF Moves, GuardMoves
    <3> QED
      BY <3>1, <3>2, <3>3
  <2>8. CASE Record(p)
    BY <2>8 DEF Record, CustodyStep, standing, Standing
  <2>9. CASE \/ OpenOwner(p) \/ WriteOwner(p) \/ EnterLock(p)
              \/ CreateRun(p) \/ LoopEnds(p) \/ InterruptLoop(p)
    <3> USE DEF OpenOwner, WriteOwner, EnterLock, CreateRun, LoopEnds, InterruptLoop, shared
    <3>1. \E l \in InLock : GoTo(p, l)
      BY <2>9 DEF InLock, Named, Unsafe
    <3>2. pc[p] \in InLock /\ pc'[p] \in InLock /\ guard' = guard
      BY <2>0, <2>9, <3>1 DEF InLock, Named, Unsafe, GoTo, TypeOK
    <3>3. Standing(p) = "driving"
      BY <2>0, <3>2, StandingOf
    <3>4. Standing(p)' = "driving"
      <4>1. pc'[p] \in InLock'
        BY <3>2 DEF InLock, Named, Unsafe
      <4>2. /\ pc'[p] \notin {"turned_away", "refused", "ended", "crashed"}
            /\ pc'[p] # "saving"
        BY <3>2 DEF InLock, Named, Unsafe
      <4> QED
        BY <4>1, <4>2 DEF Standing
    <3> QED
      BY <2>1, <3>1, <3>2, <3>3, <3>4 DEF Moves, GuardMoves
  <2>10. CASE LeaveLock(p)
    <3>1. guard = p /\ pc[p] \in InLock
      BY <2>10 DEF LeaveLock, UnlinkThenRelease, CustodyInv, GuardInv, InLock, Named, Unsafe
    <3>2. \/ /\ GoTo(p, "releasing") /\ guard' = guard
             /\ pc'[p] = "releasing"
          \/ /\ GoTo(p, "saving") \/ GoTo(p, "ended")
             /\ guard' = NoProc
             /\ pc'[p] \in {"saving", "ended"}
      BY <2>0, <2>10 DEF LeaveLock, UnlinkThenRelease, GoTo, TypeOK
    <3>3. \/ Standing(p)' = Standing(p)
          \/ Standing(p)' = "over"
      BY <3>1, <3>2 DEF Standing, InLock, Named, Unsafe
    <3> QED
      BY <2>1, <2>2, <3>1, <3>2, <3>3 DEF Moves, GuardMoves
  <2>11. CASE InterruptLock(p)
    <3>1. /\ pc[p] \in Unsafe \cup {"locking", "turned_away"}
          /\ GoTo(p, "saving")
          /\ guard' \in IF pc[p] = "releasing" THEN {guard, NoProc} ELSE {guard}
      BY <2>11 DEF InterruptLock
    <3>2. pc'[p] = "saving"
      BY <2>0, <3>1 DEF GoTo, TypeOK
    <3>3. pc[p] \in {"locking", "turned_away"} => guard # p
      BY DEF CustodyInv, GuardInv, InLock, Named, Unsafe
    <3>4. pc[p] \in Unsafe => guard = p /\ pc[p] \in InLock
      BY DEF CustodyInv, GuardInv, InLock, Named, Unsafe
    <3>5. GuardMoves(p)
      BY <3>1, <3>4 DEF GuardMoves, Unsafe
    <3>6. Standing(p)' = IF guard' = p THEN "driving" ELSE "over"
      BY <3>2 DEF Standing, InLock, Named, Unsafe
    <3>7. pc[p] \in Unsafe => Standing(p) = "driving"
      BY <2>0, <3>4, StandingOf
    <3>8. Standing(p)' = Standing(p) \/ Standing(p)' = "over"
      BY <3>1, <3>3, <3>6, <3>7, ProcsAssumption
    <3> QED
      BY <2>1, <2>2, <3>1, <3>5, <3>8 DEF Moves
  <2>12. CASE SaveOnInterrupt(p) \/ InterruptSave(p) \/ Crash(p)
    <3>1. /\ GoTo(p, "ended") \/ GoTo(p, "crashed")
          /\ GuardMoves(p)
          /\ pc'[p] \in {"ended", "crashed"}
      BY <2>0, <2>12 DEF SaveOnInterrupt, InterruptSave, Crash, Drop, GuardMoves, GoTo, TypeOK
    <3>2. Standing(p)' = "over"
      BY <2>0, <3>1, StandingOf DEF Standing, InLock, Named, Unsafe
    <3> QED
      BY <2>2, <3>1, <3>2 DEF Moves
  <2> QED
    BY <1>2, <2>4, <2>5, <2>6, <2>7, <2>8, <2>9, <2>10, <2>11, <2>12 DEF Step
<1> QED
  BY <1>1, <1>2 DEF Next

(* One loop at a time across commands, crashes and interrupts, and nobody  *)
(* is refused by an idle repository (orchestration_lock in cli/main.py).   *)
THEOREM CommandLineKeepsCustody == Spec => KeepsCustody
<1>1. Init => Custody!Init
  BY DEF Init, Custody!Init, Standing, InLock, Named, Unsafe
<1>2. CustodyInv /\ CustodyInv' /\ [Next]_vars => [Custody!Next]_standing
  BY StepKeepsCustody DEF CustodyStep
<1> QED
  BY CustodyInit, CustodyNext, <1>1, <1>2, PTL DEF Spec, KeepsCustody, Custody!Spec, standing

OneDriver ==
    \A p, q \in Procs : Standing(p) = "driving" /\ Standing(q) = "driving" => p = q

LEMMA CustodyIsExclusive == Custody!Spec => []OneDriver
<1>1. Custody!Init => OneDriver
  BY DEF Custody!Init, OneDriver
<1>2. OneDriver /\ [Custody!Next]_standing => OneDriver'
  BY DEF Custody!Next, Custody!Take, Custody!TurnAway, Custody!Leave, Custody!Becomes,
     OneDriver, standing
<1> QED
  BY <1>1, <1>2, PTL DEF Custody!Spec, standing

(* Two processes never drive the mission at the same time, whichever       *)
(* commands they run and however they end (run_lock.py:                    *)
(* orchestration_lock).                                                    *)
THEOREM OneProcessDrives == Spec => []OneDriver
BY CommandLineKeepsCustody, CustodyIsExclusive DEF KeepsCustody

-----------------------------------------------------------------------------
(* What an overlap can do to the state file, and what only it can do       *)

(* Once a loop has all that the file says of its run, only a process that  *)
(* saves after it lost the lock (except KeyboardInterrupt) adds to it.     *)
THEOREM IntrudersAreLateSaves == Spec => OnlyLateSavesIntrude
<1> DEFINE Intrusion ==
        \A p \in Procs :
           (pc[p] = "looping" /\ pc'[p] = "looping" /\ Covers(p) /\ ~Covers(p)') =>
              \E q \in Procs \ {p} : pc[q] = "saving" /\ pc'[q] = "ended"
<1>1. ASSUME CustodyInv, [Next]_vars PROVE Intrusion
  <2> SUFFICES ASSUME NEW p \in Procs, pc[p] = "looping", pc'[p] = "looping",
                      Covers(p), ~Covers(p)'
               PROVE  \E q \in Procs \ {p} : pc[q] = "saving" /\ pc'[q] = "ended"
    OBVIOUS
  <2> USE <1>1 DEF CustodyInv, TypeOK, GuardInv, InLock, Named, Unsafe, GoTo
  <2>1. run_state[p] \in RunStates
    BY DEF HasRunInv, HasRun
  <2>2. state_file' # state_file \/ run_state'[p] # run_state[p]
    BY DEF Covers
  <2>3. PICK q \in Procs : Step(q)
    BY <2>2 DEF Next, vars
  <2>4. q # p
    <3> SUFFICES ASSUME q = p PROVE FALSE
      OBVIOUS
    <3>1. Record(p)
      BY <2>3 DEF Step, Orchestrate, Resume, Configure, AbortCleanup, Starts, Acquire,
         TimesOut, ReadOwner, OpenOwner, WriteOwner, EnterLock, LeaveLock,
         UnlinkThenRelease, CreateRun, LoopEnds, InterruptLoop, InterruptLock,
         SaveOnInterrupt, InterruptSave, Crash
    <3>2. state_file' = run_state'[p]
      BY <3>1 DEF Record, save_state
    <3> QED
      BY <3>2 DEF Covers
  <2>5. pc[q] \notin InLock
    BY <2>4
  <2>6. run_state'[p] = run_state[p]
    BY <2>3, <2>4, <2>5 DEF Step, Orchestrate, Resume, Configure, AbortCleanup, Starts,
       Acquire, TimesOut, ReadOwner, OpenOwner, WriteOwner, EnterLock, LeaveLock,
       UnlinkThenRelease, CreateRun, Record, LoopEnds, InterruptLoop, InterruptLock,
       SaveOnInterrupt, InterruptSave, Crash
  <2>7. ~AbortCleanup(q)
    BY <2>1, <2>6, NoStateFacts DEF AbortCleanup, Covers, save_state
  <2>8. SaveOnInterrupt(q)
    BY <2>2, <2>3, <2>5, <2>6, <2>7 DEF Step, Orchestrate, Resume, Configure, Starts,
       Acquire, TimesOut, ReadOwner, OpenOwner, WriteOwner, EnterLock, LeaveLock,
       UnlinkThenRelease, CreateRun, Record, LoopEnds, InterruptLoop, InterruptLock,
       InterruptSave, Crash, shared
  <2> QED
    BY <2>4, <2>8 DEF SaveOnInterrupt
<1> QED
  BY CustodyInit, CustodyNext, <1>1, PTL DEF Spec, OnlyLateSavesIntrude

(* While no process has started beside another, the live one has in memory *)
(* what the file says, and a run not yet created is named nowhere.         *)
SerialInv ==
    ~overlapped =>
       /\ \A p, q \in Procs : Alive(p) /\ Alive(q) => p = q
       /\ \A p \in Procs : Alive(p) /\ run_state[p] # NoState => state_file = run_state[p]

Unborn(p) ==
    \/ pc[p] = "start"
    \/ /\ pc[p] \in {"locking", "locked", "opened", "named", "creating"}
       /\ run_state[p] = NoState

NameInv ==
    /\ \A p \in Procs : pc[p] = "start" => run_state[p] = NoState
    /\ \A p \in Procs : pc[p] = "creating" => run_state[p] = NoState
    /\ \A p \in Procs : pc[p] = "ready" => run_state[p] # NoState
    /\ \A p \in Procs : Unborn(p) =>
          /\ state_file.run # p
          /\ \A q \in Procs : run_state[q].run # p

LedgerInv == CustodyInv /\ SerialInv /\ NameInv

LEMMA LedgerInit == Init => LedgerInv
BY CustodyInit, NoStateFacts, ProcsAssumption
   DEF LedgerInv, SerialInv, NameInv, Unborn, Init, Alive, Ended

LEMMA LedgerNext ==
    ASSUME LedgerInv, [Next]_vars
    PROVE  LedgerInv' /\ (overlapped' \/ KeepsRecords)
<1>1. CASE UNCHANGED vars
  BY <1>1, CustodyNext DEF vars, LedgerInv, SerialInv, NameInv, Unborn, Alive, KeepsRecords
<1>2. ASSUME NEW p \in Procs, Step(p)
      PROVE  SerialInv' /\ NameInv' /\ (overlapped' \/ KeepsRecords)
  <2> USE NoStateFacts, ProcsAssumption
      DEF LedgerInv, CustodyInv, TypeOK, HasRunInv, HasRun, SerialInv, NameInv, Unborn,
          KeepsRecords, Alive, Ended, GoTo, shared, signals
  <2>1. CASE Orchestrate(p)
    <3>1. NameInv'
      BY <2>1 DEF Orchestrate, Starts
    <3>2. /\ ~overlapped' => \A q \in Procs : pc[q] \in Ended
          /\ \A q \in Procs \ {p} : pc'[q] = pc[q]
          /\ run_state[p] = NoState /\ UNCHANGED <<run_state, state_file>>
      BY <2>1 DEF Orchestrate, Starts
    <3>3. SerialInv' /\ (overlapped' \/ KeepsRecords)
      BY <3>2
    <3> QED
      BY <3>1, <3>3
  <2>2. CASE Resume(p)
    <3>1. NameInv'
      BY <2>2 DEF Resume, Starts, load_state
    <3>2. SerialInv' /\ (overlapped' \/ KeepsRecords)
      BY <2>2 DEF Resume, Starts, load_state
    <3> QED
      BY <3>1, <3>2
  <2>3. CASE AbortCleanup(p)
    <3>1. NameInv'
      BY <2>3 DEF AbortCleanup, Starts, save_state
    <3>2. SerialInv' /\ (overlapped' \/ KeepsRecords)
      BY <2>3 DEF AbortCleanup, Starts, save_state
    <3> QED
      BY <3>1, <3>2
  <2>4. CASE Configure(p)
    BY <2>4 DEF Configure
  <2>5. CASE Acquire(p) \/ TimesOut(p) \/ ReadOwner(p)
    BY <2>5 DEF Acquire, TimesOut, ReadOwner
  <2>6. CASE OpenOwner(p) \/ WriteOwner(p) \/ EnterLock(p)
    BY <2>6 DEF OpenOwner, WriteOwner, EnterLock
  <2>7. CASE LeaveLock(p)
    BY <2>7 DEF LeaveLock, UnlinkThenRelease
  <2>8. CASE CreateRun(p)
    BY <2>8 DEF CreateRun, save_state, NewRun
  <2>9. CASE Record(p)
    BY <2>9 DEF Record, save_state, Recorded
  <2>10. CASE LoopEnds(p)
    BY <2>10 DEF LoopEnds, save_state
  <2>11. CASE InterruptLoop(p) \/ InterruptLock(p)
    BY <2>11 DEF InterruptLoop, InterruptLock, Named, Unsafe
  <2>12. CASE SaveOnInterrupt(p) \/ InterruptSave(p)
    BY <2>12 DEF SaveOnInterrupt, InterruptSave, save_state
  <2>13. CASE Crash(p)
    BY <2>13 DEF Crash
  <2> QED
    BY <1>2, <2>1, <2>2, <2>3, <2>4, <2>5, <2>6, <2>7, <2>8, <2>9, <2>10, <2>11, <2>12,
       <2>13 DEF Step
<1> QED
  BY <1>1, <1>2, CustodyNext DEF Next, LedgerInv

(* As long as no process starts beside another, nothing recorded of a run  *)
(* is lost, whatever crashes, interrupts and resumes happen: what lets     *)
(* Orchestration.tla run its processes one after the other.                *)
THEOREM NothingForgottenInSeries == Spec => SerialRunsForgetNothing
<1>1. LedgerInv /\ [Next]_vars => LedgerInv' /\ (overlapped' \/ KeepsRecords)
  BY LedgerNext
<1> QED
  BY LedgerInit, <1>1, PTL DEF Spec, SerialRunsForgetNothing
=============================================================================
