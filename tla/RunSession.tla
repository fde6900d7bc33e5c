----------------------------- MODULE RunSession -----------------------------
(***************************************************************************)
(* The processes an operator starts on one repository (orchestrate,        *)
(* resume, abort) and what they share: the kernel lock, the owner file     *)
(* beside it, and the run-state file.                                      *)
(*                                                                         *)
(* Orchestration.tla is what happens inside one loop, with the processes   *)
(* one after the other; here they overlap, and a loop is reduced to the    *)
(* records it adds to its run state.                                       *)
(***************************************************************************)
EXTENDS Naturals

CONSTANTS
    Procs,          \* processes, each of which runs one command
    NoProc,         \* nobody
    MaxRecords      \* bound: records added by one process

ASSUME ProcsAssumption == NoProc \notin Procs /\ MaxRecords \in Nat

(* A run is named after the process that created it, a record after the    *)
(* process that made it.                                                   *)
Records   == Procs \X (1..MaxRecords)
RunStates == [run : Procs, records : SUBSET Records]

(* No file, or one that cannot be read.                                    *)
NoState == [run |-> NoProc, records |-> {}]

VARIABLES
    pc,             \* pc[p]: where process p is
    run_state,      \* run_state[p]: its RunState; NoState is None
    guard,          \* who holds orchestrator.lock.guard
    lock_file,      \* whom orchestrator.lock names
    state_file,     \* orchestrator-run-state.json
    blamed,         \* blamed[p]: whom p was told holds the lock
    interrupted,    \* processes with a KeyboardInterrupt under way
    torn,           \* history: interrupted within the lock, their name in its file
    overlapped      \* history: some process started beside a live one

shared == <<guard, lock_file, state_file>>
signals == <<interrupted, torn>>
vars == <<pc, run_state, guard, lock_file, state_file, blamed, interrupted, torn,
          overlapped>>

Ended  == {"start", "ended", "refused", "crashed"}

(* Where the name of the process is in the owner file, and where a         *)
(* KeyboardInterrupt leaves orchestration_lock without its finally block.  *)
Named  == {"named", "creating", "looping", "leaving"}
Unsafe == {"locked", "opened", "named", "leaving", "releasing"}
InLock == Named \cup Unsafe
PCs    == Ended \cup InLock \cup {"ready", "locking", "turned_away", "saving"}

Alive(p) == pc[p] \notin Ended

GoTo(p, label) == pc' = [pc EXCEPT ![p] = label]

save_state(state) == state_file' = state

(* Variant: a file without a run is accepted.                              *)
LoadRunless == [state_file EXCEPT !.run = NoProc]

load_state == state_file
-----------------------------------------------------------------------------
(* Commands, up to the lock                                                *)

Starts(p) ==
    /\ pc[p] = "start"
    /\ overlapped' = (overlapped \/ \E q \in Procs : Alive(q))

(* orchestrate: the contract check fails, or a dry run ends here, or the   *)
(* command goes on to the lock with no run state yet.                      *)
Orchestrate(p) ==
    /\ Starts(p)
    /\ GoTo(p, "ended") \/ GoTo(p, "locking")
    /\ UNCHANGED <<run_state, shared, blamed, signals>>

(* resume reads the run state before it has the lock.                      *)
Resume(p) ==
    /\ Starts(p)
    /\ run_state' = [run_state EXCEPT ![p] = load_state]
    /\ GoTo(p, IF load_state = NoState THEN "ended" ELSE "ready")
    /\ UNCHANGED <<shared, blamed, signals>>

(* load_config and HostClient come between the read and the lock.          *)
Configure(p) ==
    /\ pc[p] = "ready"
    /\ GoTo(p, "locking")
    /\ UNCHANGED <<run_state, shared, blamed, signals, overlapped>>

(* abort --cleanup-worktrees removes the file without the lock. A plain    *)
(* abort changes nothing.                                                  *)
AbortCleanup(p) ==
    /\ Starts(p)
    /\ save_state(NoState)
    /\ GoTo(p, "ended")
    /\ UNCHANGED <<run_state, guard, lock_file, blamed, signals>>
-----------------------------------------------------------------------------
(* orchestration_lock                                                      *)

(* Variant: the lock file decides, as a lock without a kernel guard would. *)
FreeByLockFile == lock_file = NoProc

GuardFree == guard = NoProc

Acquire(p) ==
    /\ pc[p] = "locking"
    /\ GuardFree
    /\ guard' = p
    /\ GoTo(p, "locked")
    /\ UNCHANGED <<run_state, lock_file, state_file, blamed, signals, overlapped>>

TimesOut(p) ==
    /\ pc[p] = "locking"
    /\ ~GuardFree
    /\ GoTo(p, "turned_away")
    /\ UNCHANGED <<run_state, shared, blamed, signals, overlapped>>

(* _read_owner, for the message of OrchestrationAlreadyRunningError.       *)
ReadOwner(p) ==
    /\ pc[p] = "turned_away"
    /\ blamed' = [blamed EXCEPT ![p] = lock_file]
    /\ GoTo(p, "refused")
    /\ UNCHANGED <<run_state, shared, signals, overlapped>>

(* write_text: the owner file is truncated, then written.                  *)
OpenOwner(p) ==
    /\ pc[p] = "locked"
    /\ lock_file' = NoProc
    /\ GoTo(p, "opened")
    /\ UNCHANGED <<run_state, guard, state_file, blamed, signals, overlapped>>

WriteOwner(p) ==
    /\ pc[p] = "opened"
    /\ lock_file' = p
    /\ GoTo(p, "named")
    /\ UNCHANGED <<run_state, guard, state_file, blamed, signals, overlapped>>

(* The try statement of the lock is entered, and the body of the with;     *)
(* orchestrate has a run to create.                                        *)
EnterLock(p) ==
    /\ pc[p] = "named"
    /\ GoTo(p, IF run_state[p] = NoState THEN "creating" ELSE "looping")
    /\ UNCHANGED <<run_state, shared, blamed, signals, overlapped>>

(* Variant: the guard is released first.                                   *)
ReleaseBeforeUnlink(p) ==
    \/ /\ pc[p] = "leaving"
       /\ guard' = NoProc
       /\ GoTo(p, "releasing")
       /\ UNCHANGED lock_file
    \/ /\ pc[p] = "releasing"
       /\ lock_file' = NoProc
       /\ GoTo(p, IF p \in interrupted THEN "saving" ELSE "ended")
       /\ UNCHANGED guard

(* The finally block: unlink the owner file, then release the guard.       *)
UnlinkThenRelease(p) ==
    \/ /\ pc[p] = "leaving"
       /\ lock_file' = NoProc
       /\ GoTo(p, "releasing")
       /\ UNCHANGED guard
    \/ /\ pc[p] = "releasing"
       /\ guard' = NoProc
       /\ GoTo(p, IF p \in interrupted THEN "saving" ELSE "ended")
       /\ UNCHANGED lock_file

LeaveLock(p) ==
    /\ UnlinkThenRelease(p)
    /\ UNCHANGED <<run_state, state_file, blamed, signals, overlapped>>
-----------------------------------------------------------------------------
(* Under the lock                                                          *)

NewRun(p) == [run |-> p, records |-> {}]

CreateRun(p) ==
    /\ pc[p] = "creating"
    /\ run_state' = [run_state EXCEPT ![p] = NewRun(p)]
    /\ save_state(NewRun(p))
    /\ GoTo(p, "looping")
    /\ UNCHANGED <<guard, lock_file, blamed, signals, overlapped>>

(* Variant: the newest record replaces the others.                         *)
RecordedAlone(state, r) == [state EXCEPT !.records = {r}]

Recorded(state, r) == [state EXCEPT !.records = @ \cup {r}]

(* A task or the loop puts something on record and saves all of it.        *)
Record(p) ==
    /\ pc[p] = "looping"
    /\ \E r \in Records \ run_state[p].records :
          /\ r[1] = p
          /\ run_state' = [run_state EXCEPT ![p] = Recorded(run_state[p], r)]
          /\ save_state(Recorded(run_state[p], r))
    /\ UNCHANGED <<pc, guard, lock_file, blamed, signals, overlapped>>

(* The loop completes (its last save adds nothing) or raises.              *)
LoopEnds(p) ==
    /\ pc[p] = "looping"
    /\ \/ save_state(run_state[p])
       \/ UNCHANGED state_file
    /\ GoTo(p, "leaving")
    /\ UNCHANGED <<run_state, guard, lock_file, blamed, signals, overlapped>>
-----------------------------------------------------------------------------
(* Interrupts and crashes                                                  *)

(* Ctrl-C inside the with statement: asyncio.run raises it, and the        *)
(* finally block of the lock is next.                                      *)
InterruptLoop(p) ==
    /\ pc[p] \in {"creating", "looping"}
    /\ interrupted' = interrupted \cup {p}
    /\ GoTo(p, "leaving")
    /\ UNCHANGED <<run_state, shared, blamed, torn, overlapped>>

(* Ctrl-C in orchestration_lock itself: before the try statement or in the *)
(* finally block, the rest of which is skipped. The owner file stays as it *)
(* is, and a guard not yet released is held until the process exits.       *)
InterruptLock(p) ==
    /\ pc[p] \in Unsafe \cup {"locking", "turned_away"}
    /\ interrupted' = interrupted \cup {p}
    /\ torn' = IF pc[p] \in Named THEN torn \cup {p} ELSE torn
    /\ guard' \in IF pc[p] = "releasing" THEN {guard, NoProc} ELSE {guard}
    /\ GoTo(p, "saving")
    /\ UNCHANGED <<run_state, lock_file, state_file, blamed, overlapped>>

(* Variant: a process that dies breaks the lock, whoever holds it.         *)
DropAny(p) == guard' = NoProc

Drop(p) == guard' = IF guard = p THEN NoProc ELSE guard

(* except KeyboardInterrupt: the run state is saved after the lock is gone.*)
SaveOnInterrupt(p) ==
    /\ pc[p] = "saving"
    /\ IF run_state[p] # NoState THEN save_state(run_state[p]) ELSE UNCHANGED state_file
    /\ Drop(p)
    /\ GoTo(p, "ended")
    /\ UNCHANGED <<run_state, lock_file, blamed, signals, overlapped>>

(* A further Ctrl-C, before save_state has replaced the file.              *)
InterruptSave(p) ==
    /\ pc[p] = "saving"
    /\ Drop(p)
    /\ GoTo(p, "ended")
    /\ UNCHANGED <<run_state, lock_file, state_file, blamed, signals, overlapped>>

(* The kernel releases the guard; the owner file stays.                    *)
Crash(p) ==
    /\ Alive(p)
    /\ Drop(p)
    /\ run_state' = [run_state EXCEPT ![p] = NoState]
    /\ GoTo(p, "crashed")
    /\ UNCHANGED <<lock_file, state_file, blamed, signals, overlapped>>
-----------------------------------------------------------------------------
Init ==
    /\ pc = [p \in Procs |-> "start"]
    /\ run_state = [p \in Procs |-> NoState]
    /\ guard = NoProc /\ lock_file = NoProc
    /\ state_file = NoState
    /\ blamed = [p \in Procs |-> NoProc]
    /\ interrupted = {} /\ torn = {}
    /\ overlapped = FALSE

Step(p) ==
    \/ Orchestrate(p) \/ Resume(p) \/ Configure(p) \/ AbortCleanup(p)
    \/ Acquire(p) \/ TimesOut(p) \/ ReadOwner(p)
    \/ OpenOwner(p) \/ WriteOwner(p) \/ EnterLock(p) \/ LeaveLock(p)
    \/ CreateRun(p) \/ Record(p) \/ LoopEnds(p)
    \/ InterruptLoop(p) \/ InterruptLock(p)
    \/ SaveOnInterrupt(p) \/ InterruptSave(p) \/ Crash(p)

Next == \E p \in Procs : Step(p)

Spec == Init /\ [][Next]_vars
-----------------------------------------------------------------------------
TypeOK ==
    /\ pc \in [Procs -> PCs]
    /\ run_state \in [Procs -> RunStates \cup {NoState}]
    /\ guard \in Procs \cup {NoProc}
    /\ lock_file \in Procs \cup {NoProc}
    /\ state_file \in RunStates \cup {NoState}
    /\ blamed \in [Procs -> Procs \cup {NoProc}]
    /\ interrupted \subseteq Procs /\ torn \subseteq interrupted
    /\ overlapped \in BOOLEAN

(* The owner file names the process that drives from the moment it is      *)
(* written to the unlink, whatever other commands do beside it. A process  *)
(* that is past the unlink or refused is never named: a stale name is left *)
(* by a crash, or by a Ctrl-C that falls between write_text and the try    *)
(* statement or in the finally block before the unlink, and by no other    *)
(* interrupt (orchestration_lock).                                         *)
OwnerFileTruthful ==
    /\ \A p \in Procs : pc[p] \in Named => lock_file = p
    /\ lock_file # NoProc => pc[lock_file] \in Named \cup {"crashed"} \/ lock_file \in torn

(* What the lock promises, seen from outside it.                           *)
Standing(p) ==
    CASE pc[p] \in InLock                     -> "driving"
      [] pc[p] \in {"turned_away", "refused"} -> "refused"
      [] pc[p] \in {"ended", "crashed"}       -> "over"
      [] pc[p] = "saving"                     -> IF guard = p THEN "driving" ELSE "over"
      [] OTHER                                -> "out"

Custody == INSTANCE RunCustody WITH standing <- [p \in Procs |-> Standing(p)]

(* The command line keeps custody: one loop at a time across commands,     *)
(* crashes and interrupts, and nobody is refused by an idle repository.    *)
KeepsCustody == Custody!Spec

(* The memory of a driving process has all its file says of the run.       *)
Covers(p) ==
    state_file.run = run_state[p].run => state_file.records \subseteq run_state[p].records

(* Once a loop has all that the file says of its run, only an interrupted  *)
(* process that saves after it lost the lock can put more into the file.   *)
OnlyLateSavesIntrude ==
    [][\A p \in Procs :
          (pc[p] = "looping" /\ pc'[p] = "looping" /\ Covers(p) /\ ~Covers(p)') =>
             \E q \in Procs \ {p} : pc[q] = "saving" /\ pc'[q] = "ended"]_vars

KeepsRecords ==
    state_file'.run = state_file.run => state_file.records \subseteq state_file'.records

(* As long as no process starts beside another, nothing recorded of a run  *)
(* is lost, whatever crashes, interrupts and resumes happen (save_state,   *)
(* load_state).                                                            *)
SerialRunsForgetNothing == [][overlapped' \/ KeepsRecords]_vars

(* "Resumes an interrupted run from saved state": nothing a run recorded   *)
(* is ever lost to it.                                                     *)
RunsForgetNothing == [][KeepsRecords]_vars
=============================================================================
