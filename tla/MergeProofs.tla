---------------------------- MODULE MergeProofs ----------------------------
(***************************************************************************)
(* The merge command, for any features, options and amount of work: what   *)
(* it may destroy, what must be safe before it cleans up, and what it may  *)
(* bring to the target branch.                                             *)
(***************************************************************************)
EXTENDS FeatureMerge, TLAPS

(* The command of a feature, with everything it was given.                 *)
Commands == {Idle} \cup [at : Steps, opt : Options, read : SUBSET Work, in_worktree : BOOLEAN]

(* The steps from one on.                                                  *)
Cleaning == {"remove", "delete"}
FromPush == {"push"} \cup Cleaning
FromAmend == {"amend"} \cup FromPush
FromRecord == {"record", "commit"} \cup FromAmend
FromPull == {"pull", "merge"} \cup FromRecord
FromCheckout == {"checkout"} \cup FromPull
Past(f, steps) == cmd[f].at \in steps

ShapeInv ==
    /\ cmd \in [Features -> Commands]
    /\ \A f \in Features : Running(f) /\ in_worktree(f) => f \in worktree \/ At(f, "delete")
    /\ \A f \in Features : Running(f) /\ ~in_worktree(f) => f \notin worktree
    /\ \A f \in Features : Running(f) => f \notin deleted

(* Where the work of f is, as its command proceeds.                        *)
FeatureInv(f) ==
    /\ Past(f, FromPull) => on = Target
    /\ Past(f, FromRecord) => cmd[f].read \subseteq branch[Target] \cup dirty[Primary]
    /\ Past(f, FromAmend) => cmd[f].read \subseteq branch[Target]
    /\ Past(f, Cleaning) /\ Opt(f).push /\ has_remote => cmd[f].read \subseteq origin
    /\ Past(f, FromRecord) => branch[f] \subseteq cmd[f].read \cup late[f]
    /\ Past(f, FromAmend) => merging # f
    /\ Running(f) /\ ~Past(f, FromRecord) => cmd[f].read = {}
    /\ Past(f, {"check_primary"} \cup FromCheckout) /\ in_worktree(f) => dirty[f] \subseteq late[f]
    /\ Past(f, FromCheckout) \/ (At(f, "check_primary") /\ ~in_worktree(f)) =>
         dirty[Primary] \subseteq late[f] \cup cmd[f].read

MergeInv == TypeOK /\ ShapeInv /\ \A f \in Features : FeatureInv(f)

LEMMA StepsOf ==
    /\ FromCheckout \subseteq Steps /\ {"check_feature", "check_primary"} \subseteq Steps
    /\ "idle" \notin Steps
BY DEF Steps, FromCheckout, FromPull, FromRecord, FromAmend, FromPush, Cleaning

(* A command goes on to another step: what it was given stays.             *)
LEMMA GoesOf ==
    ASSUME ShapeInv, NEW f \in Features, Running(f), NEW step \in Steps, Goes(f, step)
    PROVE  /\ cmd' \in [Features -> Commands]
           /\ cmd'[f].at = step /\ cmd'[f].opt = cmd[f].opt /\ cmd'[f].read = cmd[f].read
           /\ cmd'[f].in_worktree = cmd[f].in_worktree
           /\ \A g \in Features \ {f} : cmd'[g] = cmd[g]
<1>1. cmd[f] \in [at : Steps, opt : Options, read : SUBSET Work, in_worktree : BOOLEAN]
  BY DEF ShapeInv, Commands, Running, At, Idle
<1> QED
  BY <1>1 DEF Goes, ShapeInv, Commands

LEMMA QuitsOf ==
    ASSUME ShapeInv, NEW f \in Features, Quits(f)
    PROVE  /\ cmd' \in [Features -> Commands] /\ cmd'[f] = Idle
           /\ \A g \in Features \ {f} : cmd'[g] = cmd[g]
BY DEF Quits, ShapeInv, Commands

(* A feature whose own command does not move.                              *)
LEMMA OtherKeeps ==
    ASSUME MergeInv, NEW g \in Features, cmd'[g] = cmd[g],
           UNCHANGED has_remote, origin \subseteq origin',
           branch[Target] \subseteq branch'[Target],
           merging' = merging \/ merging' # g,
           Past(g, FromPull) =>
             /\ on' = Target
             /\ branch[Target] \cup dirty[Primary] \subseteq branch'[Target] \cup dirty'[Primary]
             /\ \/ branch'[g] = branch[g]
                \/ g \in worktree /\ branch'[g] \subseteq branch[g] \cup dirty[g],
           Running(g) =>
             /\ late[g] \subseteq late'[g]
             /\ dirty'[Primary] \subseteq dirty[Primary] \cup late'[g]
             /\ in_worktree(g) => dirty'[g] \subseteq dirty[g] \cup late'[g]
    PROVE  FeatureInv(g)'
<1>1. FeatureInv(g) /\ (Running(g) /\ ~in_worktree(g) => g \notin worktree)
  BY DEF MergeInv, ShapeInv
<1>2. Past(g, {"check_primary"} \cup FromCheckout) => Running(g)
  BY DEF Past, Running, At, FromCheckout, FromPull, FromRecord, FromAmend, FromPush, Cleaning
<1>3. /\ Past(g, FromPull) => Past(g, FromCheckout)
      /\ Past(g, FromRecord) => Past(g, FromPull)
      /\ Past(g, FromAmend) => Past(g, FromRecord)
      /\ Past(g, Cleaning) => Past(g, FromAmend)
      /\ Past(g, FromCheckout) => Past(g, {"check_primary"} \cup FromCheckout)
      /\ At(g, "check_primary") => Past(g, {"check_primary"} \cup FromCheckout)
  BY DEF Past, At, FromCheckout, FromPull, FromRecord, FromAmend, FromPush, Cleaning
<1>4. /\ \A steps : Past(g, steps)' <=> Past(g, steps)
      /\ At(g, "check_primary")' <=> At(g, "check_primary")
      /\ in_worktree(g)' = in_worktree(g) /\ Opt(g)' = Opt(g)
      /\ Running(g)' <=> Running(g)
  BY DEF Past, At, in_worktree, Opt, Running
<1> QED
  BY <1>1, <1>2, <1>3, <1>4 DEF FeatureInv

LEMMA MergeInit == Init => MergeInv
<1> SUFFICES ASSUME Init PROVE MergeInv
  OBVIOUS
<1>1. \A f \in Features : cmd[f] = Idle /\ ~Running(f)
  BY DEF Init, Running, At, Idle
<1>2. TypeOK
  <2>1. /\ branch \in [Features \cup {Target} -> SUBSET Work]
        /\ dirty \in [Places -> SUBSET Work]
        /\ late \in [Features -> SUBSET Work]
        /\ \A f \in Features \ worktree : dirty[f] = {}
    BY DEF Init, Places
  <2>2. runs \in 0..MaxRuns
    BY MergeAssumption DEF Init
  <2> QED
    BY <1>1, <2>1, <2>2 DEF Init, TypeOK
<1>3. ShapeInv
  BY <1>1 DEF Init, ShapeInv, Commands
<1>4. \A f \in Features : FeatureInv(f)
  BY <1>1 DEF FeatureInv, Past, At, Idle, Running, FromCheckout, FromPull, FromRecord, FromAmend,
     FromPush, Cleaning
<1> QED
  BY <1>2, <1>3, <1>4 DEF MergeInv

-----------------------------------------------------------------------------
(* The command and its shape                                               *)

LEMMA CommandsNext ==
    ASSUME TypeOK, ShapeInv, NEW f \in Features, Step(f)
    PROVE  /\ cmd' \in [Features -> Commands]
           /\ \A g \in Features \ {f} : cmd'[g] = cmd[g]
           /\ Running(f)' =>
                \/ Running(f) /\ cmd'[f].in_worktree = cmd[f].in_worktree
                \/ cmd'[f].at = "check_feature" /\ cmd'[f].in_worktree = (f \in worktree)
                   /\ f \notin deleted /\ UNCHANGED <<worktree, deleted>>
<1>1. CASE merge_command(f)
  <2>1. PICK o \in Options :
            cmd' = [cmd EXCEPT ![f] = [at |-> "check_feature", opt |-> o, read |-> {},
                                       in_worktree |-> f \in worktree]]
    BY <1>1 DEF merge_command
  <2> DEFINE new == [at |-> "check_feature", opt |-> o, read |-> {},
                     in_worktree |-> f \in worktree]
  <2>2. new \in Commands
    BY DEF Commands, Steps
  <2>3. new.at = "check_feature" /\ new.in_worktree = (f \in worktree)
    OBVIOUS
  <2> HIDE DEF new
  <2>4. cmd' = [cmd EXCEPT ![f] = new]
    BY <2>1 DEF new
  <2>5. f \notin deleted /\ UNCHANGED <<worktree, deleted>>
    BY <1>1 DEF merge_command
  <2> QED
    BY <2>2, <2>3, <2>4, <2>5 DEF ShapeInv
<1>2. CASE \E step \in Steps : Running(f) /\ Goes(f, step)
  BY <1>2, GoesOf
<1>3. CASE Quits(f)
  BY <1>3, QuitsOf DEF Running, At, Idle
<1>4. CASE At(f, "merge") /\ cmd' = [cmd EXCEPT ![f].at = "record", ![f].read = branch[f]]
  <2>1. Running(f) /\ branch[f] \subseteq Work
    BY <1>4 DEF Running, At, TypeOK
  <2>2. cmd[f] \in [at : Steps, opt : Options, read : SUBSET Work, in_worktree : BOOLEAN]
    BY <2>1 DEF ShapeInv, Commands, Running, At, Idle
  <2>3. /\ [cmd[f] EXCEPT !.at = "record", !.read = branch[f]] \in Commands
        /\ [cmd[f] EXCEPT !.at = "record", !.read = branch[f]].in_worktree = cmd[f].in_worktree
    BY <2>1, <2>2 DEF Commands, Steps
  <2>4. cmd' = [cmd EXCEPT ![f] = [cmd[f] EXCEPT !.at = "record", !.read = branch[f]]]
    BY <1>4 DEF ShapeInv
  <2> QED
    BY <2>1, <2>3, <2>4 DEF ShapeInv
<1> QED
  BY <1>1, <1>2, <1>3, <1>4
  DEF Step, CheckFeature, CheckPrimary, Checkout, Pull, Merge, Record, Commit, Amend, Push,
      RemoveWorktree, DeleteBranch, Fails, Running, At, Steps

LEMMA ShapeNext ==
    ASSUME TypeOK, ShapeInv, [Next]_vars
    PROVE  ShapeInv'
<1>1. ASSUME cmd' = cmd, UNCHANGED <<worktree, deleted>> PROVE ShapeInv'
  BY <1>1 DEF ShapeInv, Running, in_worktree, At
<1>2. ASSUME NEW f \in Features, Step(f) PROVE ShapeInv'
  <2>1. /\ worktree' \subseteq worktree /\ worktree \ {f} \subseteq worktree'
        /\ f \in worktree' \/ f \notin worktree \/ cmd'[f].at = "delete"
        /\ deleted' = deleted \/ (deleted' = deleted \cup {f} /\ ~Running(f)')
    <3>1. CASE RemoveWorktree(f)
      <4>1. cmd'[f].at = "delete"
        BY <3>1, GoesOf DEF RemoveWorktree, Running, At, Steps
      <4> QED
        BY <3>1, <4>1 DEF RemoveWorktree
    <3>2. CASE DeleteBranch(f)
      <4>1. ~Running(f)'
        BY <3>2, QuitsOf DEF DeleteBranch, Running, At, Idle
      <4> QED
        BY <3>2, <4>1 DEF DeleteBranch
    <3> QED
      BY <1>2, <3>1, <3>2
      DEF Step, merge_command, CheckFeature, CheckPrimary, Checkout, Pull, Merge, Record,
          Commit, Amend, Push, Fails
  <2>2. \A g \in Features \ {f} : cmd'[g] = cmd[g]
    BY <1>2, CommandsNext
  <2>3. At(f, "delete") => ~Running(f)'
    BY <1>2, QuitsOf
    DEF Step, merge_command, CheckFeature, CheckPrimary, Checkout, Pull, Merge, Record,
        Commit, Amend, Push, RemoveWorktree, DeleteBranch, Fails, At, Running, Idle
  <2>4. ASSUME NEW g \in Features, Running(g)'
        PROVE  /\ in_worktree(g)' => g \in worktree' \/ At(g, "delete")'
               /\ ~in_worktree(g)' => g \notin worktree'
               /\ g \notin deleted'
    <3>1. CASE g # f
      BY <2>1, <2>2, <2>4, <3>1 DEF ShapeInv, Running, At, in_worktree
    <3>2. CASE g = f
      BY <1>2, <2>1, <2>3, <2>4, <3>2, CommandsNext DEF ShapeInv, Running, At, in_worktree
    <3> QED
      BY <3>1, <3>2
  <2> QED
    BY <1>2, <2>4, CommandsNext DEF ShapeInv
<1> QED
  BY <1>1, <1>2
  DEF Next, vars, CommitWork, Switch, Edit, CommitInPrimary, RemoteAdvances, MergeRemote

LEMMA WellGiven ==
    ASSUME ShapeInv, NEW f \in Features, Running(f)
    PROVE  /\ cmd[f].at \in Steps /\ Opt(f) \in Options
           /\ cmd[f].read \subseteq Work /\ in_worktree(f) \in BOOLEAN
BY DEF ShapeInv, Commands, Running, At, Idle, Opt, in_worktree

(* The types but for what the commands were given.                         *)
DataTypes ==
    /\ branch \in [Features \cup {Target} -> SUBSET Work]
    /\ dirty \in [Places -> SUBSET Work] /\ late \in [Features -> SUBSET Work]
    /\ meta \subseteq Features /\ origin \subseteq Work
    /\ has_remote \in BOOLEAN /\ conflict \in BOOLEAN
    /\ runs \in 0..MaxRuns

(* The rest of them: what is deleted is not used.                          *)
NothingDangles ==
    /\ deleted \subseteq Features /\ worktree \subseteq Features \ deleted
    /\ \A f \in Features \ worktree : dirty[f] = {}
    /\ on \in (Features \ deleted) \cup {Target}
    /\ merging \in (Features \ deleted) \cup {None}

LEMMA DataNext ==
    ASSUME TypeOK, ShapeInv, [Next]_vars
    PROVE  DataTypes'
<1> USE DEF TypeOK, DataTypes, head, remote, Places
<1>1. CASE UNCHANGED vars
  BY <1>1 DEF vars
<1>2. ASSUME NEW f \in Features, Step(f) PROVE DataTypes'
  <2>1. CASE merge_command(f)
    <3>1. runs' \in 0..MaxRuns
      BY <2>1, MergeAssumption DEF merge_command
    <3> QED
      BY <2>1, <3>1 DEF merge_command
  <2>2. CASE CheckFeature(f) \/ CheckPrimary(f) \/ Checkout(f) \/ Fails(f) \/ Record(f)
    BY <2>2 DEF CheckFeature, CheckPrimary, Checkout, Fails, Record
  <2>3. CASE Pull(f)
    BY <2>3 DEF Pull
  <2>4. CASE Merge(f)
    <3>1. /\ late' \in [Features -> SUBSET Work]
      BY <2>4 DEF Merge, Reaches
    <3> QED
      BY <2>4, <3>1 DEF Merge
  <2>5. CASE Commit(f) \/ Amend(f)
    BY <2>5 DEF Commit, Amend, TakesIndex
  <2>6. CASE Push(f)
    BY <2>6 DEF Push
  <2>7. CASE RemoveWorktree(f) \/ DeleteBranch(f)
    BY <2>7 DEF RemoveWorktree, DeleteBranch
  <2> QED
    BY <1>2, <2>1, <2>2, <2>3, <2>4, <2>5, <2>6, <2>7 DEF Step
<1>3. ASSUME NEW c \in Places, Edit(c) PROVE DataTypes'
  <2>1. PICK w \in Work : dirty' = [dirty EXCEPT ![c] = @ \cup {w}] /\ Reaches(c, {w}, None)
    BY <1>3 DEF Edit
  <2>2. late' \in [Features -> SUBSET Work]
    BY <2>1 DEF Reaches
  <2> QED
    BY <1>3, <2>1, <2>2 DEF Edit
<1>4. ASSUME NEW f \in Features, CommitWork(f) \/ Switch(f) PROVE DataTypes'
  BY <1>4 DEF CommitWork, Switch
<1>5. CASE CommitInPrimary
  BY <1>5 DEF CommitInPrimary
<1>6. CASE RemoteAdvances
  BY <1>6 DEF RemoteAdvances
<1>7. CASE MergeRemote
  BY <1>7 DEF MergeRemote
<1> QED
  BY <1>1, <1>2, <1>3, <1>4, <1>5, <1>6, <1>7 DEF Next

LEMMA DanglesNext ==
    ASSUME MergeInv, [Next]_vars
    PROVE  NothingDangles'
<1> USE DEF TypeOK, NothingDangles, head, remote, Places
<1>0. /\ TypeOK /\ ShapeInv /\ \A f \in Features : FeatureInv(f)
      /\ Primary \notin Features /\ Target \notin Features /\ None \notin Features
  BY MergeAssumption DEF MergeInv
<1>1. CASE UNCHANGED vars
  BY <1>0, <1>1 DEF vars
<1>2. ASSUME NEW f \in Features, Step(f) PROVE NothingDangles'
  <2>1. CASE merge_command(f) \/ CheckFeature(f) \/ CheckPrimary(f) \/ Checkout(f)
             \/ Pull(f) \/ Record(f) \/ Push(f) \/ Fails(f)
    BY <1>0, <2>1 DEF merge_command, CheckFeature, CheckPrimary, Checkout, Pull, Record,
       Push, Fails
  <2>2. CASE Merge(f)
    <3>1. f \notin deleted
      BY <1>0, <2>2 DEF Merge, ShapeInv, Running, At
    <3> QED
      BY <1>0, <2>2, <3>1 DEF Merge
  <2>3. CASE Commit(f) \/ Amend(f)
    BY <1>0, <2>3 DEF Commit, Amend, TakesIndex
  <2>4. CASE RemoveWorktree(f)
    BY <1>0, <2>4 DEF RemoveWorktree
  <2>5. CASE DeleteBranch(f)
    <3>1. merging # f
      BY <1>0, <2>5 DEF DeleteBranch, FeatureInv, Past, At, FromAmend, FromPush, Cleaning
    <3> QED
      BY <1>0, <2>5, <3>1 DEF DeleteBranch
  <2> QED
    BY <1>2, <2>1, <2>2, <2>3, <2>4, <2>5 DEF Step
<1>3. ASSUME NEW c \in Places, Edit(c) PROVE NothingDangles'
  BY <1>0, <1>3 DEF Edit
<1>4. ASSUME NEW f \in Features, CommitWork(f) \/ Switch(f) PROVE NothingDangles'
  BY <1>0, <1>4 DEF CommitWork, Switch
<1>5. CASE CommitInPrimary \/ RemoteAdvances \/ MergeRemote
  BY <1>0, <1>5 DEF CommitInPrimary, RemoteAdvances, MergeRemote
<1> QED
  BY <1>1, <1>2, <1>3, <1>4, <1>5 DEF Next

LEMMA TypeNext == MergeInv /\ [Next]_vars => TypeOK'
<1> SUFFICES ASSUME MergeInv, [Next]_vars PROVE TypeOK'
  OBVIOUS
<1>1. ShapeInv' /\ DataTypes' /\ NothingDangles'
  BY ShapeNext, DataNext, DanglesNext DEF MergeInv
<1>2. \A f \in Features : Running(f)' =>
        /\ cmd'[f].at \in Steps /\ Opt(f)' \in Options
        /\ cmd'[f].read \subseteq Work /\ in_worktree(f)' \in BOOLEAN
  BY <1>1 DEF ShapeInv, Commands, Running, At, Idle, Opt, in_worktree
<1> QED
  BY <1>1, <1>2 DEF TypeOK, DataTypes, NothingDangles

-----------------------------------------------------------------------------
(* A command and its feature                                               *)

Reached ==
    /\ FromPull \subseteq FromCheckout /\ FromRecord \subseteq FromPull
    /\ FromAmend \subseteq FromRecord /\ FromPush \subseteq FromAmend
    /\ Cleaning \subseteq FromPush
    /\ {"idle", "check_feature", "check_primary"} \cap FromCheckout = {}

LEMMA Order == Reached
BY DEF Reached, FromCheckout, FromPull, FromRecord, FromAmend, FromPush, Cleaning

(* Before the merge nothing but the checks counts.                         *)
LEMMA ChecksKeep ==
    ASSUME MergeInv, NEW f \in Features,
           merge_command(f) \/ CheckFeature(f) \/ CheckPrimary(f) \/ Fails(f)
    PROVE  FeatureInv(f)'
<1>0. TypeOK /\ ShapeInv /\ FeatureInv(f) /\ Reached
  BY Order DEF MergeInv
<1> USE DEF Past, At, Running
<1>1. CASE merge_command(f)
  <2>1. cmd'[f].at = "check_feature" /\ cmd'[f].read = {}
    BY <1>0, <1>1 DEF merge_command, ShapeInv
  <2> QED
    BY <1>0, <2>1 DEF FeatureInv, Reached
<1>2. CASE Fails(f)
  <2>1. cmd'[f].at = "idle"
    BY <1>0, <1>2, QuitsOf DEF Fails, Idle
  <2> QED
    BY <1>0, <2>1 DEF FeatureInv, Reached
<1>3. CASE CheckFeature(f)
  <2>1. /\ cmd'[f].at = "check_primary" /\ cmd'[f].in_worktree = cmd[f].in_worktree
        /\ cmd'[f].read = cmd[f].read /\ cmd[f].at = "check_feature"
        /\ UNCHANGED dirty /\ dirty[Place(f)] = {}
    BY <1>0, <1>3, GoesOf DEF CheckFeature, Running, Steps, IsClean
  <2> QED
    BY <1>0, <2>1 DEF FeatureInv, Reached, Place, in_worktree, TypeOK
<1>4. CASE CheckPrimary(f)
  <2>1. /\ cmd'[f].at = "checkout" /\ cmd'[f].in_worktree = cmd[f].in_worktree
        /\ cmd'[f].read = cmd[f].read /\ cmd[f].at = "check_primary"
        /\ UNCHANGED <<dirty, late>> /\ (in_worktree(f) => dirty[Primary] = {})
    BY <1>0, <1>4, GoesOf DEF CheckPrimary, Running, Steps, IsClean
  <2> QED
    BY <1>0, <2>1 DEF FeatureInv, Reached, in_worktree, FromPull, FromRecord, FromAmend,
       FromPush, Cleaning
<1> QED
  BY <1>1, <1>2, <1>3, <1>4

LEMMA MergeKeeps ==
    ASSUME MergeInv, NEW f \in Features, Checkout(f) \/ Pull(f) \/ Merge(f) \/ Record(f)
    PROVE  FeatureInv(f)'
<1>0. TypeOK /\ ShapeInv /\ FeatureInv(f) /\ Reached /\ Target \notin Features
      /\ Primary \notin Features
  BY Order, MergeAssumption DEF MergeInv
<1> USE DEF Past, At, Running, FromCheckout, FromPull, FromRecord, FromAmend, FromPush,
            Cleaning
<1>1. CASE Checkout(f)
  <2>1. /\ cmd'[f].at = "pull" /\ cmd'[f].in_worktree = cmd[f].in_worktree
        /\ cmd'[f].read = cmd[f].read /\ cmd[f].at = "checkout"
        /\ UNCHANGED <<dirty, late>> /\ on' = Target
    BY <1>0, <1>1, GoesOf DEF Checkout, Running, Steps
  <2> QED
    BY <1>0, <2>1 DEF FeatureInv, in_worktree
<1>2. CASE Pull(f)
  <2>1. /\ cmd'[f].at = "merge" /\ cmd'[f].in_worktree = cmd[f].in_worktree
        /\ cmd'[f].read = cmd[f].read /\ cmd[f].at = "pull"
        /\ UNCHANGED <<dirty, late, on>>
    BY <1>0, <1>2, GoesOf DEF Pull, Running, Steps, head
  <2> QED
    BY <1>0, <2>1 DEF FeatureInv, in_worktree
<1>3. CASE Merge(f)
  <2>1. CASE Quits(f)
    <3>1. cmd'[f].at = "idle"
      BY <1>0, <2>1, QuitsOf DEF Idle
    <3> QED
      BY <3>1 DEF FeatureInv
  <2>2. CASE cmd' = [cmd EXCEPT ![f].at = "record", ![f].read = branch[f]]
    <3>1. cmd[f] \in [at : Steps, opt : Options, read : SUBSET Work, in_worktree : BOOLEAN]
      BY <1>0, <1>3 DEF Merge, ShapeInv, Commands, Idle
    <3>2. /\ cmd'[f].at = "record" /\ cmd'[f].in_worktree = cmd[f].in_worktree
          /\ cmd'[f].read = branch[f] /\ cmd[f].at = "merge"
      BY <1>0, <1>3, <2>2, <3>1 DEF Merge, ShapeInv
    <3>3. /\ on = Target /\ on' = Target /\ UNCHANGED branch
          /\ dirty'[Primary] = dirty[Primary] \cup (branch[f] \ branch[Target])
          /\ dirty'[f] = dirty[f] /\ late'[f] = late[f]
      BY <1>0, <1>3 DEF Merge, FeatureInv, Reaches, TypeOK, Places
    <3>4. dirty[Primary] \subseteq late[f] /\ (in_worktree(f) => dirty[f] \subseteq late[f])
      BY <1>0, <3>2 DEF FeatureInv
    <3> QED
      BY <1>0, <3>2, <3>3, <3>4 DEF FeatureInv, in_worktree
  <2> QED
    BY <1>3, <2>1, <2>2 DEF Merge
<1>4. CASE Record(f)
  <2>1. /\ cmd'[f].at = "commit" /\ cmd'[f].in_worktree = cmd[f].in_worktree
        /\ cmd'[f].read = cmd[f].read /\ cmd[f].at = "record"
        /\ UNCHANGED <<branch, dirty, late, on, merging>>
    BY <1>0, <1>4, GoesOf DEF Record, Running, Steps
  <2> QED
    BY <1>0, <2>1 DEF FeatureInv, in_worktree
<1> QED
  BY <1>1, <1>2, <1>3, <1>4

(* From the commit on, what was read is on the target.                     *)
LEMMA CleanupKeeps ==
    ASSUME MergeInv, NEW f \in Features,
           Commit(f) \/ Amend(f) \/ Push(f) \/ RemoveWorktree(f) \/ DeleteBranch(f)
    PROVE  FeatureInv(f)'
<1>0. TypeOK /\ ShapeInv /\ FeatureInv(f) /\ Reached /\ Target \notin Features
      /\ Primary \notin Features /\ None \notin Features
  BY Order, MergeAssumption DEF MergeInv
<1> USE DEF Past, At, Running, FromCheckout, FromPull, FromRecord, FromAmend, FromPush,
            Cleaning
<1>1. CASE Commit(f) \/ Amend(f)
  <2>1. PICK step \in {"amend", "push"} :
            /\ cmd'[f].at = step /\ cmd'[f].in_worktree = cmd[f].in_worktree
            /\ cmd'[f].read = cmd[f].read /\ cmd[f].at \in {"commit", "amend"}
    BY <1>0, <1>1, GoesOf DEF Commit, Amend, Steps
  <2>2. on = Target
    BY <1>0, <2>1 DEF FeatureInv
  <2>3. /\ branch'[Target] = branch[Target] \cup dirty[Primary]
        /\ dirty'[Primary] = {} /\ merging' = None
        /\ branch'[f] = branch[f] /\ dirty'[f] = dirty[f]
        /\ on' = on /\ late' = late
    BY <1>0, <1>1, <2>2 DEF Commit, Amend, TakesIndex, TypeOK, Places
  <2> QED
    BY <1>0, <2>1, <2>2, <2>3 DEF FeatureInv, in_worktree
<1>2. CASE Push(f)
  <2>1. /\ cmd'[f].at = "remove" /\ cmd'[f].in_worktree = cmd[f].in_worktree
        /\ cmd'[f].read = cmd[f].read /\ cmd[f].at = "push" /\ cmd'[f].opt = cmd[f].opt
        /\ UNCHANGED <<branch, dirty, late, on, merging, has_remote>>
        /\ Opt(f).push /\ has_remote => origin' = branch[Target]
    BY <1>0, <1>2, GoesOf DEF Push, Steps, head
  <2> QED
    BY <1>0, <2>1 DEF FeatureInv, in_worktree, Opt
<1>3. CASE RemoveWorktree(f)
  <2>1. /\ cmd'[f].at = "delete" /\ cmd'[f].in_worktree = cmd[f].in_worktree
        /\ cmd'[f].read = cmd[f].read /\ cmd[f].at = "remove" /\ cmd'[f].opt = cmd[f].opt
        /\ UNCHANGED <<branch, late, on, merging, has_remote, origin>>
        /\ dirty'[Primary] = dirty[Primary] /\ dirty'[f] \subseteq dirty[f]
    BY <1>0, <1>3, GoesOf DEF RemoveWorktree, Steps, head, remote, TypeOK, Places
  <2> QED
    BY <1>0, <2>1 DEF FeatureInv, in_worktree, Opt
<1>4. CASE DeleteBranch(f)
  <2>1. cmd'[f].at = "idle"
    BY <1>0, <1>4, QuitsOf DEF DeleteBranch, Idle
  <2> QED
    BY <2>1 DEF FeatureInv
<1> QED
  BY <1>1, <1>2, <1>3, <1>4

(* A command of f, seen from another feature g.                            *)
LEMMA StepKeepsOthers ==
    ASSUME MergeInv, NEW f \in Features, Step(f), NEW g \in Features \ {f}
    PROVE  FeatureInv(g)'
<1> USE DEF head, remote
<1>0. TypeOK /\ ShapeInv /\ FeatureInv(f) /\ FeatureInv(g) /\ Target \notin Features
      /\ Primary \notin Features /\ None \notin Features /\ cmd'[g] = cmd[g]
  BY MergeAssumption, CommandsNext DEF MergeInv
<1>1. CASE merge_command(f) \/ CheckFeature(f) \/ CheckPrimary(f) \/ Checkout(f)
           \/ Pull(f) \/ Record(f) \/ Fails(f)
  <2>1. /\ UNCHANGED <<has_remote, origin, dirty>>
        /\ merging' \in {merging, None}
        /\ branch[Target] \subseteq branch'[Target] /\ branch'[g] = branch[g]
        /\ on' = on \/ on' = Target
        /\ late'[g] = late[g]
    BY <1>0, <1>1 DEF merge_command, CheckFeature, CheckPrimary, Checkout, Pull, Record,
       Fails, TypeOK
  <2> QED
    BY <1>0, <2>1, OtherKeeps DEF FeatureInv
<1>2. CASE Merge(f)
  <2>1. /\ UNCHANGED <<has_remote, origin, branch, on>>
        /\ merging' \in {f, None}
        /\ dirty'[Primary] = dirty[Primary] \cup (branch[f] \ branch[on])
        /\ dirty'[g] = dirty[g]
        /\ Running(g) => late'[g] = late[g] \cup (branch[f] \ branch[on])
        /\ late[g] \subseteq late'[g]
    BY <1>0, <1>2 DEF Merge, Reaches, TypeOK, Places
  <2> QED
    BY <1>0, <2>1, OtherKeeps DEF FeatureInv
<1>3. CASE Commit(f) \/ Amend(f)
  <2>1. on = Target
    BY <1>0, <1>3 DEF FeatureInv, Past, Commit, Amend, At, FromPull, FromRecord, FromAmend
  <2>2. /\ UNCHANGED <<has_remote, origin, on, late>>
        /\ branch'[Target] = branch[Target] \cup dirty[Primary] /\ branch'[g] = branch[g]
        /\ dirty'[Primary] = {} /\ dirty'[g] = dirty[g] /\ merging' = None
    BY <1>0, <1>3, <2>1 DEF Commit, Amend, TakesIndex, TypeOK, Places
  <2> QED
    BY <1>0, <2>1, <2>2, OtherKeeps
<1>4. CASE Push(f)
  <2>1. /\ UNCHANGED <<has_remote, branch, on, late, dirty, merging>> /\ origin \subseteq origin'
    BY <1>4 DEF Push
  <2> QED
    BY <1>0, <2>1, OtherKeeps DEF FeatureInv
<1>5. CASE RemoveWorktree(f) \/ DeleteBranch(f)
  <2>1. /\ UNCHANGED <<has_remote, origin, on, late, merging>>
        /\ branch'[Target] = branch[Target] /\ branch'[g] = branch[g]
        /\ dirty'[Primary] = dirty[Primary] /\ dirty'[g] = dirty[g]
    BY <1>0, <1>5 DEF RemoveWorktree, DeleteBranch, TypeOK, Places
  <2> QED
    BY <1>0, <2>1, OtherKeeps DEF FeatureInv
<1> QED
  BY <1>1, <1>2, <1>3, <1>4, <1>5 DEF Step

LEMMA EnvironmentKeeps ==
    ASSUME MergeInv, NEW g \in Features,
           \/ \E f \in Features : CommitWork(f) \/ Switch(f)
           \/ \E c \in Places : Edit(c)
           \/ CommitInPrimary \/ RemoteAdvances \/ MergeRemote
    PROVE  FeatureInv(g)'
<1> USE DEF head, remote
<1>0. /\ TypeOK /\ ShapeInv /\ FeatureInv(g) /\ Target \notin Features
      /\ Primary \notin Features /\ None \notin Features
      /\ Past(g, FromPull) => on = Target /\ Running(g)
  BY MergeAssumption
  DEF MergeInv, FeatureInv, Past, Running, At, FromPull, FromRecord, FromAmend, FromPush,
      Cleaning
<1>1. ASSUME NEW f \in Features, CommitWork(f) PROVE FeatureInv(g)'
  <2>1. /\ UNCHANGED <<has_remote, origin, on, late, merging, cmd>>
        /\ branch'[Target] = branch[Target]
        /\ \/ branch'[g] = branch[g]
           \/ g \in worktree /\ branch'[g] = branch[g] \cup dirty[g]
        /\ dirty'[Primary] = dirty[Primary] /\ dirty'[g] \subseteq dirty[g]
    BY <1>0, <1>1 DEF CommitWork, TypeOK, Places
  <2> QED
    BY <1>0, <2>1, OtherKeeps
<1>2. ASSUME NEW f \in Features, Switch(f) PROVE FeatureInv(g)'
  <2>1. /\ UNCHANGED <<has_remote, origin, late, merging, cmd, branch, dirty>> /\ ~Running(g)
    BY <1>2 DEF Switch
  <2> QED
    BY <1>0, <2>1, OtherKeeps
<1>3. ASSUME NEW c \in Places, Edit(c) PROVE FeatureInv(g)'
  <2>1. PICK w \in Work : dirty' = [dirty EXCEPT ![c] = @ \cup {w}] /\ Reaches(c, {w}, None)
    BY <1>3 DEF Edit
  <2>2. /\ late[g] \subseteq late'[g]
        /\ Running(g) /\ c \in {Place(g), Primary} => w \in late'[g]
    BY <1>0, <2>1 DEF Reaches
  <2>3. /\ dirty'[Primary] \subseteq dirty[Primary] \cup (IF c = Primary THEN {w} ELSE {})
        /\ dirty'[g] \subseteq dirty[g] \cup (IF c = g THEN {w} ELSE {})
        /\ dirty[Primary] \subseteq dirty'[Primary]
    BY <1>0, <2>1 DEF TypeOK, Places
  <2>4. Running(g) /\ in_worktree(g) => dirty'[g] \subseteq dirty[g] \cup late'[g]
    BY <2>2, <2>3 DEF Place
  <2>5. Running(g) => dirty'[Primary] \subseteq dirty[Primary] \cup late'[g]
    BY <2>2, <2>3
  <2>6. UNCHANGED <<has_remote, origin, on, merging, cmd, branch>>
    BY <1>3 DEF Edit
  <2> QED
    BY <1>0, <2>2, <2>3, <2>4, <2>5, <2>6, OtherKeeps
<1>4. CASE CommitInPrimary
  <2>1. /\ UNCHANGED <<has_remote, origin, on, late, cmd>> /\ merging' = None
        /\ branch[Target] \subseteq branch'[Target]
        /\ on = Target => branch'[Target] = branch[Target] \cup dirty[Primary]
                          /\ branch'[g] = branch[g]
        /\ dirty'[Primary] = {} /\ dirty'[g] = dirty[g]
    BY <1>0, <1>4 DEF CommitInPrimary, TypeOK, Places
  <2> QED
    BY <1>0, <2>1, OtherKeeps
<1>5. CASE RemoteAdvances \/ MergeRemote
  <2>1. /\ UNCHANGED <<has_remote, on, late, cmd, dirty, merging>>
        /\ origin \subseteq origin' /\ branch[Target] \subseteq branch'[Target]
        /\ branch'[g] = branch[g]
    BY <1>0, <1>5 DEF RemoteAdvances, MergeRemote, TypeOK
  <2> QED
    BY <1>0, <2>1, OtherKeeps
<1> QED
  BY <1>1, <1>2, <1>3, <1>4, <1>5

LEMMA MergeNext == MergeInv /\ [Next]_vars => MergeInv'
<1> SUFFICES ASSUME MergeInv, [Next]_vars PROVE MergeInv'
  OBVIOUS
<1>1. TypeOK' /\ ShapeInv'
  BY TypeNext, ShapeNext DEF MergeInv
<1>2. CASE UNCHANGED vars
  <2>1. \A g \in Features : FeatureInv(g)'
    BY <1>2 DEF vars, head, remote, MergeInv, FeatureInv, Past, At, Running, Opt, in_worktree
  <2> QED
    BY <1>1, <2>1 DEF MergeInv
<1>3. CASE Next
  <2>1. ASSUME NEW f \in Features, Step(f), NEW g \in Features PROVE FeatureInv(g)'
    <3>1. CASE g # f
      BY <2>1, <3>1, StepKeepsOthers
    <3>2. CASE g = f
      BY <2>1, <3>2, ChecksKeep, MergeKeeps, CleanupKeeps DEF Step
    <3> QED
      BY <3>1, <3>2
  <2>2. \A g \in Features : FeatureInv(g)'
    BY <1>3, <2>1, EnvironmentKeeps DEF Next
  <2> QED
    BY <1>1, <2>2 DEF MergeInv
<1> QED
  BY <1>2, <1>3

-----------------------------------------------------------------------------
(* What is proved                                                          *)

(* Only the command of f moves it.                                         *)
LEMMA OwnCommand ==
    ASSUME MergeInv, [Next]_vars, NEW f \in Features, cmd'[f] # cmd[f]
    PROVE  Step(f)
BY CommandsNext DEF MergeInv, Next, vars, CommitWork, Switch, Edit, CommitInPrimary,
   RemoteAdvances, MergeRemote

(* Branches, checkouts and commands are well typed, nothing deleted is     *)
(* checked out or being merged, and a removed worktree holds no edits.     *)
THEOREM MergeTypeCorrect == Spec => []TypeOK
<1>1. MergeInv => TypeOK
  BY DEF MergeInv
<1> QED
  BY <1>1, MergeInit, MergeNext, PTL DEF Spec

LEMMA CleanupNext ==
    ASSUME MergeInv, [Next]_vars, NEW f \in Features,
           f \in worktree \ worktree' \/ f \in deleted' \ deleted
    PROVE  /\ cmd[f].read \subseteq branch[Target]
           /\ (Opt(f).push /\ has_remote) => cmd[f].read \subseteq origin
<1>1. FeatureInv(f)
  BY DEF MergeInv
<1>2. At(f, "remove") \/ At(f, "delete")
  BY DEF Next, vars, Step, merge_command, CheckFeature, CheckPrimary, Checkout, Pull, Merge,
     Record, Commit, Amend, Push, RemoveWorktree, DeleteBranch, Fails, CommitWork, Switch,
     Edit, CommitInPrimary, RemoteAdvances, MergeRemote
<1> QED
  BY <1>1, <1>2 DEF FeatureInv, Past, At, FromAmend, FromPush, Cleaning

(* The worktree and the branch of a feature go only when what was merged   *)
(* is on the target, and on the remote if it was to be pushed              *)
(* (merge_command).                                                        *)
THEOREM CleanupIsSafe == Spec => PushedBeforeCleanup
<1>1. MergeInv /\ [Next]_vars =>
        [\A f \in Features :
           (f \in worktree \ worktree' \/ f \in deleted' \ deleted) =>
             /\ cmd[f].read \subseteq branch[Target]
             /\ (Opt(f).push /\ has_remote) => cmd[f].read \subseteq origin]_vars
  BY CleanupNext
<1> QED
  BY <1>1, MergeInit, MergeNext, PTL DEF Spec, PushedBeforeCleanup

LEMMA BroughtNext ==
    ASSUME MergeInv, [Next]_vars, NEW f \in Features, At(f, "commit") \/ At(f, "amend"),
           cmd'[f] # cmd[f]
    PROVE  branch'[Target] \ branch[Target] \subseteq cmd[f].read \cup late[f]
<1>0. /\ TypeOK /\ FeatureInv(f) /\ Step(f) /\ Target \notin Features
  BY OwnCommand, MergeAssumption DEF MergeInv
<1>1. on = Target /\ dirty[Primary] \subseteq late[f] \cup cmd[f].read
  BY <1>0 DEF FeatureInv, Past, At, FromCheckout, FromPull, FromRecord, FromAmend
<1>2. CASE Commit(f) \/ Amend(f)
  BY <1>0, <1>1, <1>2 DEF Commit, Amend, TakesIndex, TypeOK
<1>3. CASE Fails(f)
  BY <1>3 DEF Fails
<1> QED
  BY <1>0, <1>2, <1>3
  DEF Step, merge_command, CheckFeature, CheckPrimary, Checkout, Pull, Merge, Record, Push,
      RemoveWorktree, DeleteBranch, At

(* A merge brings to the target the work of its feature, and beyond that   *)
(* only what reached the primary after the command had checked it          *)
(* (merge_command, ensure_clean).                                          *)
THEOREM MergeBringsItsFeature == Spec => MergesItsFeature
<1>1. MergeInv /\ [Next]_vars =>
        [\A f \in Features :
           (At(f, "commit") \/ At(f, "amend")) /\ cmd'[f] # cmd[f] =>
             branch'[Target] \ branch[Target] \subseteq cmd[f].read \cup late[f]]_vars
  BY BroughtNext
<1> QED
  BY <1>1, MergeInit, MergeNext, PTL DEF Spec, MergesItsFeature

(* Work is present when it is somewhere.                                   *)
LEMMA PresentAt ==
    ASSUME TypeOK, NEW x
    PROVE  x \in Present <=> \/ \E b \in Features \cup {Target} : x \in branch[b]
                             \/ x \in origin
                             \/ \E c \in Places : x \in dirty[c]
<1>1. DOMAIN branch = Features \cup {Target}
  BY DEF TypeOK
<1> DEFINE committed == UNION {branch[b] : b \in DOMAIN branch}
           edits == UNION {dirty[c] : c \in Places}
<1>2. x \in committed <=> \E b \in Features \cup {Target} : x \in branch[b]
  BY <1>1, Zenon
<1>3. x \in edits <=> \E c \in Places : x \in dirty[c]
  BY Zenon
<1>4. Present = committed \cup origin \cup edits
  BY DEF Present
<1> HIDE DEF committed, edits
<1> QED
  BY <1>2, <1>3, <1>4

LEMMA DropsNext ==
    ASSUME MergeInv, [Next]_vars, NEW f \in Features, cmd'[f] # cmd[f],
           NEW x \in Present \ Present'
    PROVE  x \in late[f]
<1> USE DEF head, remote
<1>0. /\ TypeOK /\ TypeOK' /\ ShapeInv /\ FeatureInv(f) /\ Step(f)
      /\ Target \notin Features /\ Primary \notin Features /\ f \in Places /\ Primary \in Places
  BY OwnCommand, TypeNext, MergeAssumption DEF MergeInv, Places
<1>1. ~\/ \E b \in Features \cup {Target} : x \in branch'[b]
       \/ x \in origin'
       \/ \E c \in Places : x \in dirty'[c]
  <2>1. DOMAIN branch' = Features \cup {Target}
    BY <1>0 DEF TypeOK
  <2> DEFINE committed == UNION {branch'[b] : b \in DOMAIN branch'}
             edits == UNION {dirty'[c] : c \in Places}
  <2>2. x \in committed <=> \E b \in Features \cup {Target} : x \in branch'[b]
    BY <2>1, Zenon
  <2>3. x \in edits <=> \E c \in Places : x \in dirty'[c]
    BY Zenon
  <2>4. Present' = committed \cup origin' \cup edits
    BY DEF Present
  <2> HIDE DEF committed, edits
  <2> QED
    BY <2>2, <2>3, <2>4
<1>2. \/ \E b \in Features \cup {Target} : x \in branch[b]
      \/ x \in origin
      \/ \E c \in Places : x \in dirty[c]
  BY <1>0, PresentAt
<1>3. CASE RemoveWorktree(f)
  <2>1. x \in dirty[f] /\ in_worktree(f)
    BY <1>0, <1>1, <1>2, <1>3 DEF RemoveWorktree, TypeOK
  <2> QED
    BY <1>0, <1>3, <2>1
    DEF RemoveWorktree, FeatureInv, Past, At, FromCheckout, FromPull, FromRecord, FromAmend,
        FromPush, Cleaning
<1>4. CASE DeleteBranch(f)
  <2>1. x \in branch[f]
    BY <1>0, <1>1, <1>2, <1>4 DEF DeleteBranch, TypeOK
  <2>2. x \notin branch[Target]
    BY <1>0, <1>1, <1>4 DEF DeleteBranch, TypeOK
  <2> QED
    BY <1>0, <1>4, <2>1, <2>2
    DEF DeleteBranch, FeatureInv, Past, At, FromRecord, FromAmend, FromPush, Cleaning
<1>5. CASE Commit(f) \/ Amend(f)
  <2>1. on \in Features \cup {Target}
    BY <1>0 DEF TypeOK
  <2>2. /\ origin' = origin
        /\ \A b \in Features \cup {Target} : branch[b] \subseteq branch'[b]
        /\ dirty[Primary] \subseteq branch'[on]
        /\ \A c \in Places \ {Primary} : dirty'[c] = dirty[c]
    BY <1>0, <1>5, <2>1 DEF Commit, Amend, TakesIndex, TypeOK
  <2> QED
    BY <1>1, <1>2, <2>1, <2>2
<1>6. CASE Merge(f) \/ Pull(f) \/ Push(f)
  <2>1. /\ origin \subseteq origin' \/ (origin' = branch[Target] /\ origin \subseteq branch[Target])
        /\ \A b \in Features \cup {Target} : branch[b] \subseteq branch'[b]
        /\ \A c \in Places : dirty[c] \subseteq dirty'[c]
    BY <1>0, <1>6 DEF Merge, Pull, Push, TypeOK
  <2> QED
    BY <1>1, <1>2, <2>1
<1>7. CASE merge_command(f) \/ CheckFeature(f) \/ CheckPrimary(f) \/ Checkout(f)
           \/ Record(f) \/ Fails(f)
  BY <1>1, <1>2, <1>7 DEF merge_command, CheckFeature, CheckPrimary, Checkout, Record, Fails
<1> QED
  BY <1>0, <1>3, <1>4, <1>5, <1>6, <1>7 DEF Step

(* The forced removals destroy only work begun after the command had       *)
(* checked the checkout (merge_command: git worktree remove --force and    *)
(* git branch -D).                                                         *)
THEOREM OnlyLateWorkIsLost == Spec => DropsOnlyLateWork
<1>1. MergeInv /\ [Next]_vars =>
        [\A f \in Features : cmd'[f] # cmd[f] => Present \ Present' \subseteq late[f]]_vars
  BY DropsNext
<1> QED
  BY <1>1, MergeInit, MergeNext, PTL DEF Spec, DropsOnlyLateWork
=============================================================================
