---------------------------- MODULE FeatureMerge ----------------------------
(***************************************************************************)
(* The merge command of the task tools: the branch of a feature is merged  *)
(* into the target branch in the primary checkout, pushed, and its         *)
(* worktree and branch are removed.  Features are merged from worktrees of *)
(* their own, or from the primary checkout, at the same time and while     *)
(* agents go on editing and committing.  Nothing is locked, and a command  *)
(* that fails or is killed undoes nothing: it is run again.                *)
(*                                                                         *)
(* A branch is the set of pieces of work on it.  Not modelled: --dry-run   *)
(* and the rebase strategy, which stop before the merge, and the hash      *)
(* recorded in meta.json.                                                  *)
(***************************************************************************)
EXTENDS Naturals, FiniteSets

CONSTANTS Features, Work, Target, Primary, None,
          Options,      \* the command lines: strategy, push, ...
          MaxRuns       \* bound: commands ever started

CommandLines == [strategy : {"merge", "squash"}, push : BOOLEAN,
                 remove_worktree : BOOLEAN, delete_branch : BOOLEAN]

ASSUME MergeAssumption ==
  /\ Options \subseteq CommandLines
  /\ MaxRuns \in Nat
  /\ {Target, Primary, None} \cap Features = {}

VARIABLES
  branch,      \* the work on the target and on each feature's branch
  deleted,     \* features whose branch is deleted
  worktree,    \* features that have a worktree
  dirty,       \* uncommitted work in each checkout; Primary's is staged
  meta,        \* features whose meta.json in the primary is uncommitted
  on,          \* the branch checked out in the primary
  merging,     \* MERGE_HEAD in the primary
  conflict,    \* the index of the primary has unmerged paths
  has_remote, origin, \* the target branch on the remote
  cmd,         \* the merge command of each feature
  runs,
  late         \* history: work done in its checkouts since its check

head == <<on, merging, conflict, meta>>
remote == <<has_remote, origin>>
vars == <<branch, deleted, worktree, dirty, head, remote, cmd, runs, late>>

Places == Features \cup {Primary}
Idle == [at |-> "idle"]
Steps == {"check_feature", "check_primary", "checkout", "pull", "merge",
          "record", "commit", "amend", "push", "remove", "delete"}

Init ==
  /\ worktree \in SUBSET Features
  /\ on \in {Target} \cup (Features \ worktree)
  /\ branch = [b \in Features \cup {Target} |-> {}]
  /\ dirty = [c \in Places |-> {}]
  /\ deleted = {} /\ meta = {} /\ merging = None /\ conflict = FALSE
  /\ has_remote \in BOOLEAN /\ origin = {}
  /\ cmd = [f \in Features |-> Idle]
  /\ runs = 0
  /\ late = [f \in Features |-> {}]

-----------------------------------------------------------------------------
At(f, step) == cmd[f].at = step
Goes(f, step) == cmd' = [cmd EXCEPT ![f].at = step]
Quits(f) == cmd' = [cmd EXCEPT ![f] = Idle]
Running(f) == ~At(f, "idle")

Opt(f) == cmd[f].opt
in_worktree(f) == cmd[f].in_worktree
Place(f) == IF in_worktree(f) THEN f ELSE Primary

IsClean(c) == dirty[c] = {} /\ (c = Primary => meta = {})

(* The work W reaches checkout c while other commands than f run.          *)
Reaches(c, W, f) ==
  late' = [g \in Features |->
             IF g # f /\ Running(g) /\ c \in {Place(g), Primary} THEN late[g] \cup W ELSE late[g]]

(* Started in the feature's worktree, or in the primary with its branch    *)
(* checked out; any other branch is refused.                               *)
merge_command(f) ==
  /\ At(f, "idle")
  /\ runs < MaxRuns
  /\ f \notin deleted
  /\ f \in worktree \/ on = f
  /\ \E o \in Options :
       cmd' = [cmd EXCEPT ![f] = [at |-> "check_feature", opt |-> o, read |-> {},
                                  in_worktree |-> f \in worktree]]
  /\ runs' = runs + 1
  /\ late' = [late EXCEPT ![f] = {}]
  /\ UNCHANGED <<branch, deleted, worktree, dirty, head, remote>>

(* Variant: the checkout of the feature is not looked at.                  *)
CheckNoFeature(f) ==
  /\ At(f, "check_feature")
  /\ Goes(f, "check_primary")
  /\ UNCHANGED <<branch, deleted, worktree, dirty, head, remote, runs, late>>

(* ensure_clean(worktree_root): or the command stops (Fails).              *)
CheckFeature(f) ==
  /\ At(f, "check_feature")
  /\ IsClean(Place(f))
  /\ Goes(f, "check_primary")
  /\ UNCHANGED <<branch, deleted, worktree, dirty, head, remote, runs, late>>

(* Variant: the primary is not looked at.                                  *)
CheckNoPrimary(f) ==
  /\ At(f, "check_primary")
  /\ Goes(f, "checkout")
  /\ UNCHANGED <<branch, deleted, worktree, dirty, head, remote, runs, late>>

(* ensure_clean(primary_repo_root), from a worktree only.                  *)
CheckPrimary(f) ==
  /\ At(f, "check_primary")
  /\ in_worktree(f) => IsClean(Primary)
  /\ Goes(f, "checkout")
  /\ UNCHANGED <<branch, deleted, worktree, dirty, head, remote, runs, late>>

(* git checkout <target>: staged work comes along, and a merge in progress *)
(* loses its MERGE_HEAD; unmerged paths refuse it.                         *)
Checkout(f) ==
  /\ At(f, "checkout")
  /\ ~conflict
  /\ on' = Target
  /\ merging' = None
  /\ Goes(f, "pull")
  /\ UNCHANGED <<branch, deleted, worktree, dirty, conflict, meta, remote, runs, late>>

(* git fetch and git pull --ff-only: refused on diverged branches and in   *)
(* the middle of a merge.                                                  *)
Pull(f) ==
  /\ At(f, "pull")
  /\ IF has_remote
     THEN /\ merging = None /\ ~conflict
          /\ branch[Target] \subseteq origin \/ origin \subseteq branch[Target]
          /\ branch' = [branch EXCEPT ![Target] = @ \cup origin]
     ELSE UNCHANGED branch
  /\ Goes(f, "merge")
  /\ UNCHANGED <<deleted, worktree, dirty, head, remote, runs, late>>

(* git merge --no-ff --no-commit wants an index like HEAD; --squash keeps  *)
(* work staged by others and leaves no MERGE_HEAD.  Neither starts in the  *)
(* middle of a merge.  On a conflict the command stops and leaves it.      *)
Merge(f) ==
  LET brought == branch[f] \ branch[on]
  IN /\ At(f, "merge")
     /\ merging = None /\ ~conflict
     /\ Opt(f).strategy = "merge" => IsClean(Primary)
     /\ dirty' = [dirty EXCEPT ![Primary] = @ \cup brought]
     /\ merging' = IF Opt(f).strategy = "merge" /\ brought # {} THEN f ELSE None
     /\ \/ /\ cmd' = [cmd EXCEPT ![f].at = "record", ![f].read = branch[f]]
           /\ UNCHANGED conflict
        \/ /\ brought # {}
           /\ Quits(f)
           /\ conflict' = TRUE
     /\ Reaches(Primary, brought, f)
     /\ UNCHANGED <<branch, deleted, worktree, on, meta, remote, runs>>

(* _prepare_merge_metadata, and meta.json is added.                        *)
Record(f) ==
  /\ At(f, "record")
  /\ meta' = meta \cup {f}
  /\ Goes(f, "commit")
  /\ UNCHANGED <<branch, deleted, worktree, dirty, on, merging, conflict, remote, runs, late>>

(* git commit takes the whole index, and ends a merge.                     *)
TakesIndex ==
  /\ ~conflict
  /\ branch' = [branch EXCEPT ![on] = @ \cup dirty[Primary]]
  /\ dirty' = [dirty EXCEPT ![Primary] = {}]
  /\ meta' = {}
  /\ merging' = None
  /\ UNCHANGED <<on, conflict>>

(* With nothing staged, git commit fails.                                  *)
Commit(f) ==
  /\ At(f, "commit")
  /\ ~IsClean(Primary)
  /\ TakesIndex
  /\ Goes(f, "amend")
  /\ UNCHANGED <<deleted, worktree, remote, runs, late>>

(* _finalize_merge_metadata and git commit --amend, refused in the middle  *)
(* of a merge.                                                             *)
Amend(f) ==
  /\ At(f, "amend")
  /\ merging = None
  /\ TakesIndex
  /\ Goes(f, "push")
  /\ UNCHANGED <<deleted, worktree, remote, runs, late>>

(* Variant: a push that fails is not noticed.                              *)
PushUnseen(f) ==
  /\ At(f, "push")
  /\ IF Opt(f).push /\ has_remote /\ origin \subseteq branch[Target]
     THEN origin' = branch[Target]
     ELSE UNCHANGED origin
  /\ Goes(f, "remove")
  /\ UNCHANGED <<branch, deleted, worktree, dirty, head, has_remote, runs, late>>

(* git push origin <target>, refused when the remote has moved on; without *)
(* a remote it is skipped.                                                 *)
Push(f) ==
  /\ At(f, "push")
  /\ IF Opt(f).push /\ has_remote
     THEN origin \subseteq branch[Target] /\ origin' = branch[Target]
     ELSE UNCHANGED origin
  /\ Goes(f, "remove")
  /\ UNCHANGED <<branch, deleted, worktree, dirty, head, has_remote, runs, late>>

(* git worktree remove --force: edits in it are gone.                      *)
RemoveWorktree(f) ==
  /\ At(f, "remove")
  /\ IF in_worktree(f) /\ Opt(f).remove_worktree
     THEN /\ worktree' = worktree \ {f}
          /\ dirty' = [dirty EXCEPT ![f] = {}]
     ELSE UNCHANGED <<worktree, dirty>>
  /\ Goes(f, "delete")
  /\ UNCHANGED <<branch, deleted, head, remote, runs, late>>

(* Variant: a branch that is still checked out is deleted as well.         *)
DeleteInUse(f) ==
  /\ At(f, "delete")
  /\ IF Opt(f).delete_branch
     THEN /\ deleted' = deleted \cup {f}
          /\ branch' = [branch EXCEPT ![f] = {}]
     ELSE UNCHANGED <<deleted, branch>>
  /\ Quits(f)
  /\ UNCHANGED <<worktree, dirty, head, remote, runs, late>>

(* git branch -d, then -D whatever is on the branch; both are refused      *)
(* while it is checked out.                                                *)
DeleteBranch(f) ==
  /\ At(f, "delete")
  /\ IF Opt(f).delete_branch
     THEN /\ f \notin worktree /\ on # f
          /\ deleted' = deleted \cup {f}
          /\ branch' = [branch EXCEPT ![f] = {}]
     ELSE UNCHANGED <<deleted, branch>>
  /\ Quits(f)
  /\ UNCHANGED <<worktree, dirty, head, remote, runs, late>>

(* A refusal, a failed git call, ^C: the command stops where it is.        *)
Fails(f) ==
  /\ Running(f)
  /\ Quits(f)
  /\ UNCHANGED <<branch, deleted, worktree, dirty, head, remote, runs, late>>

Step(f) ==
  \/ merge_command(f) \/ CheckFeature(f) \/ CheckPrimary(f) \/ Checkout(f)
  \/ Pull(f) \/ Merge(f) \/ Record(f) \/ Commit(f) \/ Amend(f) \/ Push(f)
  \/ RemoveWorktree(f) \/ DeleteBranch(f) \/ Fails(f)

-----------------------------------------------------------------------------
(* Agents and people (not in the repository).                              *)

Present == (UNION {branch[b] : b \in DOMAIN branch}) \cup origin
           \cup (UNION {dirty[c] : c \in Places})

Fresh(w) == w \notin Present \cup (UNION {late[f] : f \in Features})

(* New work in a checkout; the task tools stage theirs in the primary.     *)
Edit(c) ==
  /\ c \in worktree \cup {Primary}
  /\ \E w \in Work :
       /\ Fresh(w)
       /\ dirty' = [dirty EXCEPT ![c] = @ \cup {w}]
       /\ Reaches(c, {w}, None)
  /\ UNCHANGED <<branch, deleted, worktree, head, remote, cmd, runs>>

(* An agent commits in its worktree.                                       *)
CommitWork(f) ==
  /\ f \in worktree /\ dirty[f] # {}
  /\ branch' = [branch EXCEPT ![f] = @ \cup dirty[f]]
  /\ dirty' = [dirty EXCEPT ![f] = {}]
  /\ UNCHANGED <<deleted, worktree, head, remote, cmd, runs, late>>

(* Somebody commits in the primary, resolving conflicts, or switches it to *)
(* a feature without worktree when no merge command runs.                  *)
CommitInPrimary ==
  /\ ~IsClean(Primary)
  /\ branch' = [branch EXCEPT ![on] = @ \cup dirty[Primary]]
  /\ dirty' = [dirty EXCEPT ![Primary] = {}]
  /\ meta' = {} /\ merging' = None /\ conflict' = FALSE
  /\ UNCHANGED <<deleted, worktree, on, remote, cmd, runs, late>>

Switch(f) ==
  /\ \A g \in Features : ~Running(g)
  /\ f \notin deleted \cup worktree
  /\ merging = None /\ ~conflict
  /\ on # f /\ on' = f
  /\ UNCHANGED <<branch, deleted, worktree, dirty, merging, conflict, meta, remote, cmd, runs, late>>

(* Others push to the target; somebody merges their work by hand.          *)
RemoteAdvances ==
  /\ has_remote
  /\ \E w \in Work : Fresh(w) /\ origin' = origin \cup {w}
  /\ UNCHANGED <<branch, deleted, worktree, dirty, head, has_remote, cmd, runs, late>>

MergeRemote ==
  /\ ~(origin \subseteq branch[Target]) /\ merging = None /\ ~conflict
  /\ branch' = [branch EXCEPT ![Target] = @ \cup origin]
  /\ UNCHANGED <<deleted, worktree, dirty, head, remote, cmd, runs, late>>

Next ==
  \/ \E f \in Features : Step(f) \/ CommitWork(f) \/ Switch(f)
  \/ \E c \in Places : Edit(c)
  \/ CommitInPrimary \/ RemoteAdvances \/ MergeRemote

Spec == Init /\ [][Next]_vars

-----------------------------------------------------------------------------
(* Properties                                                              *)

(* Shape of the state: a branch in a worktree exists, a removed worktree   *)
(* holds no edits, and a merge in progress is of one live feature.         *)
TypeOK ==
  /\ branch \in [Features \cup {Target} -> SUBSET Work]
  /\ deleted \subseteq Features /\ worktree \subseteq Features \ deleted
  /\ dirty \in [Places -> SUBSET Work]
  /\ \A f \in Features \ worktree : dirty[f] = {}
  /\ meta \subseteq Features
  /\ on \in (Features \ deleted) \cup {Target}
  /\ merging \in (Features \ deleted) \cup {None}
  /\ conflict \in BOOLEAN /\ has_remote \in BOOLEAN /\ origin \subseteq Work
  /\ \A f \in Features : Running(f) =>
       /\ cmd[f].at \in Steps /\ Opt(f) \in Options
       /\ cmd[f].read \subseteq Work /\ in_worktree(f) \in BOOLEAN
  /\ runs \in 0..MaxRuns
  /\ late \in [Features -> SUBSET Work]

(* The forced removal of the worktree and of the branch destroys only work *)
(* that was begun after the command's own check of the checkout: whatever  *)
(* was there before, committed or not, survives a merge.                   *)
DropsOnlyLateWork ==
  [][\A f \in Features :
       cmd'[f] # cmd[f] => Present \ Present' \subseteq late[f]]_vars

(* The checkout or the branch of a feature is removed only once the target *)
(* has the merged work, and the remote too when a push was asked for: a    *)
(* merge whose push failed keeps the means to run it again.                *)
PushedBeforeCleanup ==
  [][\A f \in Features :
       (f \in worktree \ worktree' \/ f \in deleted' \ deleted) =>
         /\ cmd[f].read \subseteq branch[Target]
         /\ (Opt(f).push /\ has_remote) => cmd[f].read \subseteq origin]_vars

(* The commits of a merge bring to the target the work of its feature, and *)
(* beyond that only what others staged in the primary after the command    *)
(* had checked it.                                                         *)
MergesItsFeature ==
  [][\A f \in Features :
       (At(f, "commit") \/ At(f, "amend")) /\ cmd'[f] # cmd[f] =>
         branch'[Target] \ branch[Target] \subseteq cmd[f].read \cup late[f]]_vars

=============================================================================
