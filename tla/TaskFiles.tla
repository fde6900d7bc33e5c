----------------------------- MODULE TaskFiles -----------------------------
(***************************************************************************)
(* The task tools (.kittify/scripts/tasks): update, history, rollback and  *)
(* accept, run by several agents at once on the work package (WP) files of *)
(* one feature in the main checkout.  There is no lock: every command      *)
(* reads the lane of a file, reads the file again for the rest, writes it  *)
(* back whole and stages it, in separate steps, and may fail or be killed  *)
(* between them.                                                           *)
(*                                                                         *)
(* A file is its lane, its activity log reduced to the lanes it names, and *)
(* its encoding.  Commands that print only (list, --dry-run, --no-commit,  *)
(* the checklist mode) or refuse (legacy layout, unknown WP, undecodable   *)
(* or unknown lane) change nothing; status and verify are an accept that   *)
(* stops after it has read, and like it may normalize files.               *)
(***************************************************************************)
EXTENDS Naturals, Sequences

CONSTANTS Procs, WPs,
          Targets,      \* bound: the lanes commands ask for
          MaxCommands   \* bound: commands ever started

LANES == {"planned", "doing", "for_review", "done"}

ASSUME BoundsAssumption ==
  /\ Targets \subseteq LANES
  /\ MaxCommands \in Nat

VARIABLES
  file, index, head,  \* each WP file in the directory, the index and HEAD
  meta_changed,       \* meta.json differs from the index
  meta_staged,        \* meta.json in the index differs from HEAD
  cmd,                \* the command each process runs, and what it has read
  commands,
  logged,             \* history: the log all finished writes add up to
  damaged,            \* history: WPs written by overlapping or killed commands, or
                      \* normalized from mixed encodings
  stale               \* history: accepting processes whose view is out of date

disk == <<file, index, head, meta_changed, meta_staged>>
ghosts == <<logged, damaged, stale>>
vars == <<disk, cmd, commands, ghosts>>

(* cp1252: all of the file is; mixed: UTF-8 with some bytes of cp1252.     *)
Encodings == {"utf8", "cp1252", "mixed"}
Decodes(wp) == wp.encoding = "utf8"

(* The log of task-prompt-template.md opens with four entries that show    *)
(* the format; activity_entries takes them for entries of the WP.          *)
Examples == <<"planned", "doing", "for_review", "done">>

Files == [lane : LANES \cup {"missing"}, log : Seq(LANES), encoding : Encodings,
          examples : {0, Len(Examples)}]

(* An empty file: no frontmatter, no log.                                  *)
Truncated == [lane |-> "missing", log |-> <<>>, encoding |-> "utf8", examples |-> 0]
Idle == [name |-> "none", at |-> "idle"]

(* Variant: no default.                                                    *)
LaneAsWritten(wp) == wp.lane

(* get_lane_from_frontmatter: planned when there is none.                  *)
current_lane(wp) == IF wp.lane = "missing" THEN "planned" ELSE wp.lane
LastLane(log) == log[Len(log)]

Template ==
  [lane |-> "planned", log |-> Append(Examples, "planned"), encoding |-> "utf8",
   examples |-> Len(Examples)]

(* A WP may also be done already, without the examples, or be written by   *)
(* hand without lane and log.                                              *)
Finished(e) ==
  [lane |-> "done", log |-> <<"planned", "done">>, encoding |-> e, examples |-> 0]

Born == {Template, Truncated} \cup {Finished(e) : e \in Encodings}

Init ==
  /\ file \in [WPs -> Born]
  /\ index = file /\ head = file
  /\ meta_changed = FALSE /\ meta_staged = FALSE
  /\ cmd = [p \in Procs |-> Idle]
  /\ commands = 0
  /\ logged = [w \in WPs |-> file[w].log]
  /\ damaged = {}
  /\ stale = {}

-----------------------------------------------------------------------------
(* Locating: the lane of the file is read, then, from a second read of it, *)
(* the frontmatter and the log (locate_work_package).                      *)

At(p, step) == cmd[p].at = step
Runs(p, c) == cmd' = [cmd EXCEPT ![p] = c]
Goes(p, step) == Runs(p, [cmd[p] EXCEPT !.at = step])
Quits(p) == Runs(p, Idle)

(* From its first read to the end of its write a command owns what it has  *)
(* read.                                                                   *)
HasOpen(p, w) ==
  /\ cmd[p].at \in {"rolling", "locating", "loaded", "writing", "decoded", "rewriting"}
  /\ cmd[p].wp = w
Contested(p, w) == \E q \in Procs \ {p} : HasOpen(q, w)
Overlap(p, w) == damaged' = IF Contested(p, w) THEN damaged \cup {w} ELSE damaged

Starts(p) ==
  /\ At(p, "idle")
  /\ commands < MaxCommands
  /\ commands' = commands + 1

(* get_lane_from_frontmatter, for the lane asked for: "same" is no lane.   *)
ReadsLane(p, name, w, asked) ==
  /\ Decodes(file[w])
  /\ Runs(p, [name |-> name, at |-> "locating", wp |-> w, asked |-> asked,
              current |-> current_lane(file[w])])

update_command(p) ==
  /\ Starts(p)
  /\ \E w \in WPs, lane \in Targets : ReadsLane(p, "update", w, lane) /\ Overlap(p, w)
  /\ UNCHANGED <<disk, logged, stale>>

history_command(p) ==
  /\ Starts(p)
  /\ \E w \in WPs, lane \in Targets \cup {"same"} :
       ReadsLane(p, "history", w, lane) /\ Overlap(p, w)
  /\ UNCHANGED <<disk, logged, stale>>

(* Variant: the lane of the first entry.                                   *)
FirstLane(log) == log[1]

(* The lane a rollback asks update for: that of the entry before the last. *)
previous_lane(log) == log[Len(log) - 1]

(* rollback reads the log, and hands a lane to update, which locates the   *)
(* WP again.                                                               *)
rollback_command(p) ==
  /\ Starts(p)
  /\ \E w \in WPs :
       /\ Decodes(file[w])
       /\ Len(file[w].log) >= 2
       /\ Runs(p, [name |-> "rollback", at |-> "rolling", wp |-> w,
                   asked |-> previous_lane(file[w].log)])
       /\ Overlap(p, w)
  /\ UNCHANGED <<disk, logged, stale>>

UpdateByRollback(p) ==
  /\ At(p, "rolling")
  /\ ReadsLane(p, "rollback", cmd[p].wp, cmd[p].asked)
  /\ UNCHANGED <<disk, commands, ghosts>>

(* update refuses a WP that is already in the lane asked for.              *)
Refuses(c) == c.name # "history" /\ c.asked = c.current

ReadsText(p) ==
  /\ At(p, "locating")
  /\ LET c == cmd[p] IN
       /\ Decodes(file[c.wp])
       /\ IF Refuses(c)
          THEN Quits(p)
          ELSE Runs(p, [name |-> c.name, at |-> "loaded", wp |-> c.wp, current |-> c.current,
                        lane |-> IF c.asked = "same" THEN c.current ELSE c.asked,
                        seen |-> file[c.wp]])
  /\ UNCHANGED <<disk, commands, ghosts>>

-----------------------------------------------------------------------------
(* Writing: the file is emptied, filled from what was read, then staged.   *)

(* Whoever has checked the repository, and is about to commit, no longer   *)
(* has a current view of it; of the files, whoever has begun to read them. *)
Checked == {q \in Procs : cmd[q].at \in {"checked", "recorded", "staged"}}
Reading == {q \in Procs : cmd[q].at \in {"reading", "texts"}}

Outdates(p) == stale' = stale \cup (Checked \ {p})
OutdatesFiles(p) == stale' = stale \cup ((Checked \cup Reading) \ {p})

(* write_text opens the file for writing: it is empty until it is filled.  *)
OpenForWriting(p) ==
  /\ At(p, "loaded")
  /\ file' = [file EXCEPT ![cmd[p].wp] = Truncated]
  /\ Goes(p, "writing")
  /\ OutdatesFiles(p)
  /\ UNCHANGED <<index, head, meta_changed, meta_staged, commands, logged, damaged>>

(* Variants: the log starts again; the lane is not set.                    *)
UpdatedAfresh(c) == [c.seen EXCEPT !.lane = c.lane, !.log = <<c.lane>>]
UpdatedLogOnly(c) == [c.seen EXCEPT !.log = Append(@, c.lane)]

(* stage_update and history_command: the lane is set (history leaves it    *)
(* when it read this one first) and an entry is appended to the log.       *)
Updated(c) ==
  [c.seen EXCEPT !.lane = IF c.name = "history" /\ c.lane = c.current THEN @ ELSE c.lane,
                 !.log = Append(@, c.lane)]

Fill(p) ==
  /\ At(p, "writing")
  /\ LET c == cmd[p] IN
       /\ file' = [file EXCEPT ![c.wp] = Updated(c)]
       /\ logged' = [logged EXCEPT ![c.wp] = Append(@, c.lane)]
       /\ Runs(p, [name |-> c.name, at |-> "adding", wp |-> c.wp])
  /\ OutdatesFiles(p)
  /\ UNCHANGED <<index, head, meta_changed, meta_staged, commands, damaged>>

(* git add of the file as it now is.                                       *)
AddFile(p) ==
  /\ At(p, "adding")
  /\ index' = [index EXCEPT ![cmd[p].wp] = file[cmd[p].wp]]
  /\ Quits(p)
  /\ Outdates(p)
  /\ UNCHANGED <<file, head, meta_changed, meta_staged, commands, logged, damaged>>

-----------------------------------------------------------------------------
(* Accepting (accept_command, collect_feature_summary, perform_acceptance).*)

Ready(wp) ==
  /\ current_lane(wp) = "done"
  /\ wp.log # <<>> /\ LastLane(wp.log) = "done"

StartsAccepting(p) ==
  /\ Starts(p)
  /\ Runs(p, [name |-> "accept", at |-> "reading", todo |-> WPs])
  /\ stale' = stale \ {p}
  /\ UNCHANGED <<disk, logged, damaged>>

(* Variant: a WP whose log does not end in done is passed over.            *)
ReadsDoneLogs(p) ==
  /\ At(p, "reading")
  /\ \E w \in cmd[p].todo :
       LET done == file[w].log # <<>> /\ LastLane(file[w].log) = "done" IN
       /\ Decodes(file[w])
       /\ Runs(p, [name |-> "accept", at |-> IF done THEN "texts" ELSE "reading",
                   wp |-> w, todo |-> cmd[p].todo \ {w}])
  /\ UNCHANGED <<disk, commands, ghosts>>

(* _iter_work_packages: of each WP the log is read, then the lane; a       *)
(* command that finds a check failing ends without a change.               *)
ReadsLog(p) ==
  /\ At(p, "reading")
  /\ \E w \in cmd[p].todo :
       /\ Decodes(file[w])
       /\ IF file[w].log # <<>> /\ LastLane(file[w].log) = "done"
          THEN Runs(p, [name |-> "accept", at |-> "texts", wp |-> w, todo |-> cmd[p].todo \ {w}])
          ELSE Quits(p)
  /\ UNCHANGED <<disk, commands, ghosts>>

ReadsLaneAgain(p) ==
  /\ At(p, "texts")
  /\ LET c == cmd[p] IN
       /\ Decodes(file[c.wp])
       /\ IF current_lane(file[c.wp]) = "done"
          THEN Runs(p, [name |-> "accept", at |-> "reading", todo |-> c.todo])
          ELSE Quits(p)
  /\ UNCHANGED <<disk, commands, ghosts>>

(* With --normalize-encoding, a file that does not decode sends the        *)
(* command through all of them, and then it reads them again.              *)
MeetsEncoding(p) ==
  /\ At(p, "reading")
  /\ \E w \in cmd[p].todo : ~Decodes(file[w])
  /\ Runs(p, [name |-> "accept", at |-> "normalizing", todo |-> WPs])
  /\ UNCHANGED <<disk, commands, ghosts>>

(* read_bytes of a file that does not decode: the others are passed over.  *)
ReadsBytes(p) ==
  /\ At(p, "normalizing")
  /\ \E w \in WPs :
       /\ ~Decodes(file[w])
       /\ Runs(p, [name |-> "accept", at |-> "decoded", wp |-> w, seen |-> file[w]])
       /\ Overlap(p, w)
  /\ UNCHANGED <<disk, commands, logged, stale>>

(* write_text again: the file is emptied, then filled.                     *)
Empties(p) ==
  /\ At(p, "decoded")
  /\ file' = [file EXCEPT ![cmd[p].wp] = Truncated]
  /\ Goes(p, "rewriting")
  /\ OutdatesFiles(p)
  /\ UNCHANGED <<index, head, meta_changed, meta_staged, commands, logged, damaged>>

(* All of a mixed file is read as cp1252: the dashes that separate the     *)
(* fields of its log entries are garbled, and no entry is found again.     *)
Normalized(wp) ==
  IF wp.encoding = "mixed" THEN [Truncated EXCEPT !.lane = wp.lane]
                           ELSE [wp EXCEPT !.encoding = "utf8"]

Rewrites(p) ==
  /\ At(p, "rewriting")
  /\ LET c == cmd[p] IN
       /\ file' = [file EXCEPT ![c.wp] = Normalized(c.seen)]
       /\ damaged' = IF c.seen.encoding = "mixed" THEN damaged \cup {c.wp} ELSE damaged
       /\ Runs(p, [name |-> "accept", at |-> "normalizing", todo |-> WPs])
  /\ OutdatesFiles(p)
  /\ UNCHANGED <<index, head, meta_changed, meta_staged, commands, logged>>

ReadsAgain(p) ==
  /\ At(p, "normalizing") /\ \A w \in WPs : Decodes(file[w])
  /\ Runs(p, [name |-> "accept", at |-> "reading", todo |-> WPs])
  /\ stale' = stale \ {p}
  /\ UNCHANGED <<disk, commands, logged, damaged>>

normalize_feature_encoding(p) ==
  MeetsEncoding(p) \/ ReadsBytes(p) \/ Empties(p) \/ Rewrites(p) \/ ReadsAgain(p)

(* git_status_lines is empty.                                              *)
CleanStatus == file = index /\ index = head /\ ~meta_changed /\ ~meta_staged

(* When git status itself fails the repository is taken to be clean.       *)
GitStatus(p) ==
  /\ At(p, "reading") /\ cmd[p].todo = {}
  /\ UNCHANGED <<disk, commands, logged, damaged>>
  /\ \/ CleanStatus /\ Goes(p, "checked") /\ UNCHANGED stale
     \/ ~CleanStatus /\ Quits(p) /\ stale' = stale \ {p}
     \/ Goes(p, "checked") /\ stale' = stale \cup {p}

WriteMeta(p) ==
  /\ At(p, "checked")
  /\ meta_changed' = TRUE
  /\ Goes(p, "recorded")
  /\ Outdates(p)
  /\ UNCHANGED <<file, index, head, meta_staged, commands, logged, damaged>>

AddMeta(p) ==
  /\ At(p, "recorded")
  /\ meta_staged' = (meta_staged \/ meta_changed)
  /\ meta_changed' = FALSE
  /\ Goes(p, "staged")
  /\ Outdates(p)
  /\ UNCHANGED <<file, index, head, commands, logged, damaged>>

(* git commit takes the whole index; with nothing staged there is none.    *)
CommitAcceptance(p) ==
  /\ At(p, "staged")
  /\ head' = index
  /\ meta_staged' = FALSE
  /\ Quits(p)
  /\ stale' = (stale \cup Checked) \ {p}
  /\ UNCHANGED <<file, index, meta_changed, commands, logged, damaged>>

-----------------------------------------------------------------------------
(* Any command may be killed, or a git command of it fail (the lock of the *)
(* index, a hook): what it has done so far stays.                          *)
Stops(p) ==
  /\ ~At(p, "idle")
  /\ Quits(p)
  /\ damaged' = IF cmd[p].at \in {"writing", "rewriting"} THEN damaged \cup {cmd[p].wp}
                                                         ELSE damaged
  /\ stale' = stale \ {p}
  /\ UNCHANGED <<disk, commands, logged>>

(* Somebody commits everything (external).                                 *)
CommitAll ==
  /\ ~CleanStatus
  /\ index' = file /\ head' = file
  /\ meta_changed' = FALSE /\ meta_staged' = FALSE
  /\ stale' = stale \cup Checked
  /\ UNCHANGED <<file, cmd, commands, logged, damaged>>

accept_command(p) ==
  \/ normalize_feature_encoding(p) \/ StartsAccepting(p) \/ ReadsLog(p) \/ ReadsLaneAgain(p)
  \/ GitStatus(p)
  \/ WriteMeta(p) \/ AddMeta(p) \/ CommitAcceptance(p)

stage_update(p) == OpenForWriting(p) \/ Fill(p) \/ AddFile(p)

Next ==
  \/ \E p \in Procs :
       \/ update_command(p) \/ history_command(p) \/ rollback_command(p) \/ UpdateByRollback(p)
       \/ ReadsText(p)
       \/ stage_update(p) \/ accept_command(p) \/ Stops(p)
  \/ CommitAll

Spec == Init /\ [][Next]_vars

-----------------------------------------------------------------------------
(* Types of the files, of what each command holds, and of the histories.   *)
TypeOK ==
  /\ file \in [WPs -> Files] /\ index \in [WPs -> Files] /\ head \in [WPs -> Files]
  /\ meta_changed \in BOOLEAN /\ meta_staged \in BOOLEAN
  /\ commands \in 0..MaxCommands
  /\ \A p \in Procs :
       /\ cmd[p].at \in {"idle", "rolling", "locating", "loaded", "writing", "adding",
                         "reading", "texts", "normalizing", "decoded", "rewriting",
                         "checked", "recorded", "staged"}
       /\ cmd[p].at \in {"loaded", "writing"} => cmd[p].lane \in LANES
       /\ cmd[p].at \in {"loaded", "writing", "decoded", "rewriting"} => cmd[p].seen \in Files
  /\ logged \in [WPs -> Seq(LANES)]
  /\ damaged \subseteq WPs /\ stale \subseteq Procs

(* A WP file with a log is in the lane its last entry names, in the        *)
(* directory, the index and HEAD, unless a command on it overlapped        *)
(* another, was killed while it wrote, or normalized mixed encodings:      *)
(* acceptance and rollback rely on the log where update relies on the      *)
(* lane, and history sets one or both.                                     *)
LaneMatchesLog ==
  \A w \in WPs \ damaged : \A wp \in {file[w], index[w], head[w]} :
    wp.log # <<>> => current_lane(wp) = LastLane(wp.log)

Written(w) == \E p \in Procs : cmd[p].at \in {"writing", "rewriting"} /\ cmd[p].wp = w

(* The log of a WP is all that was ever logged for it, in order, unless a  *)
(* command on it overlapped another, was killed while it wrote, or         *)
(* normalized mixed encodings: there is no lock, and a write replaces the  *)
(* whole file.                                                             *)
NoEntryLost == \A w \in WPs \ damaged : file[w].log = logged[w] \/ Written(w)

(* The lane of the latest entry of a log that names another lane than the  *)
(* last, if there is one; the first n entries, examples, do not count.     *)
PriorLanes(log, n) ==
  {log[i] : i \in {i \in n + 1..Len(log) :
                     /\ log[i] # LastLane(log)
                     /\ \A j \in i + 1..Len(log) : log[j] = LastLane(log)}}

RollsBack(p) == Fill(p) /\ cmd[p].name = "rollback" /\ cmd[p].wp \notin damaged

(* "Return a work package to its prior lane": a rollback that changes a    *)
(* file returns the WP to the lane it was in before, unless another        *)
(* command on it overlapped, or its log has no two entries beside the      *)
(* examples of the template: then the last example counts as the entry     *)
(* before, and a WP nobody has moved becomes done (rollback_command).      *)
RollbackToPriorLane ==
  [][\A p \in Procs :
       LET c == cmd[p] IN
       RollsBack(p) /\ Len(logged[c.wp]) >= c.seen.examples + 2
       => c.lane \in PriorLanes(logged[c.wp], c.seen.examples)]_vars

(* The commit of an acceptance holds the metadata and nothing else, on top *)
(* of WPs that are all done, unless a file was changed after the first was *)
(* read, anything at all after git status, or that failed.  A change that  *)
(* is not committed by then makes the status dirty (perform_acceptance).   *)
AcceptsWhatItChecked ==
  [][\A p \in Procs :
       CommitAcceptance(p) /\ p \notin stale
       => index = head /\ \A w \in WPs : Ready(head[w])]_vars
=============================================================================
