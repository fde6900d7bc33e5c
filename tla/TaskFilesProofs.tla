-------------------------- MODULE TaskFilesProofs --------------------------
(***************************************************************************)
(* Theorems about TaskFiles, for every set of processes and work packages, *)
(* every choice of lanes asked for and every bound: what the task tools    *)
(* keep although nothing keeps two of them apart.                          *)
(***************************************************************************)
EXTENDS TaskFiles, TLAPS

(* What a process runs, by the step it is at.                              *)
Rollings == [name : {"rollback"}, at : {"rolling"}, wp : WPs, asked : LANES]

Editors == {"update", "history", "rollback"}

Locatings == [name : Editors, at : {"locating"}, wp : WPs,
              asked : LANES \cup {"same"}, current : LANES]

Edits == [name : Editors, at : {"loaded", "writing"}, wp : WPs,
          current : LANES, lane : LANES, seen : Files]

Stagings == [name : Editors, at : {"adding"}, wp : WPs]

Surveys == [name : {"accept"}, at : {"reading", "normalizing", "checked", "recorded", "staged"},
            todo : SUBSET WPs]

Texts == [name : {"accept"}, at : {"texts"}, wp : WPs, todo : SUBSET WPs]

Repairs == [name : {"accept"}, at : {"decoded", "rewriting"}, wp : WPs, seen : Files]

Commands == {Idle} \cup Rollings \cup Locatings \cup Edits \cup Stagings \cup Surveys
              \cup Texts \cup Repairs

TypeInv == TypeOK /\ cmd \in [Procs -> Commands]

(* The step a process is at says what it runs.                             *)
LEMMA CommandAt ==
    ASSUME TypeInv, NEW p \in Procs
    PROVE  /\ At(p, "idle") => cmd[p] = Idle
           /\ At(p, "rolling") => cmd[p] \in Rollings
           /\ At(p, "locating") => cmd[p] \in Locatings
           /\ cmd[p].at \in {"loaded", "writing"} => cmd[p] \in Edits
           /\ At(p, "adding") => cmd[p] \in Stagings
           /\ cmd[p].at \in {"reading", "normalizing", "checked", "recorded", "staged"}
                => cmd[p] \in Surveys
           /\ At(p, "texts") => cmd[p] \in Texts
           /\ cmd[p].at \in {"decoded", "rewriting"} => cmd[p] \in Repairs
<1>1. cmd[p] \in Commands
  BY DEF TypeInv
<1>2. Idle.at = "idle"
  BY DEF Idle
<1>3. CASE cmd[p] = Idle
  BY <1>2, <1>3 DEF At
<1>4. CASE cmd[p] \in Rollings
  BY <1>4 DEF At, Rollings
<1>5. CASE cmd[p] \in Locatings
  BY <1>5 DEF At, Locatings
<1>6. CASE cmd[p] \in Edits
  BY <1>6 DEF At, Edits
<1>7. CASE cmd[p] \in Surveys
  BY <1>7 DEF At, Surveys
<1>8. CASE cmd[p] \in Texts
  BY <1>8 DEF At, Texts
<1>9. CASE cmd[p] \in Stagings
  BY <1>9 DEF At, Stagings
<1>10. CASE cmd[p] \in Repairs
  BY <1>10 DEF At, Repairs
<1> QED
  BY <1>1, <1>3, <1>4, <1>5, <1>6, <1>7, <1>8, <1>9, <1>10 DEF Commands

(* What a step makes of its process is again a command.                    *)
LEMMA RunsType ==
    ASSUME cmd \in [Procs -> Commands], NEW p \in Procs, NEW c \in Commands, Runs(p, c)
    PROVE  cmd' \in [Procs -> Commands]
BY DEF Runs

LEMMA QuitsType ==
    ASSUME cmd \in [Procs -> Commands], NEW p \in Procs, Quits(p)
    PROVE  cmd' \in [Procs -> Commands]
BY DEF Quits, Runs, Commands

(* What TypeOK says of a command follows from what it is.                  *)
LEMMA CommandTypes ==
    ASSUME NEW c \in Commands
    PROVE  /\ c.at \in {"idle", "rolling", "locating", "loaded", "writing", "adding",
                        "reading", "texts", "normalizing", "decoded", "rewriting",
                        "checked", "recorded", "staged"}
           /\ c.at \in {"loaded", "writing"} => c.lane \in LANES
           /\ c.at \in {"loaded", "writing", "decoded", "rewriting"} => c.seen \in Files
<1>1. CASE c = Idle
  BY <1>1 DEF Idle
<1>2. CASE c \in Rollings \cup Locatings
  BY <1>2 DEF Rollings, Locatings
<1>3. CASE c \in Edits
  BY <1>3 DEF Edits
<1>4. CASE c \in Surveys \cup Texts
  BY <1>4 DEF Surveys, Texts
<1>5. CASE c \in Stagings \cup Repairs
  BY <1>5 DEF Stagings, Repairs
<1> QED
  BY <1>1, <1>2, <1>3, <1>4, <1>5 DEF Commands

(* What a file holds.                                                      *)
LEMMA FileTypes ==
    ASSUME NEW wp \in Files
    PROVE  /\ wp.log \in Seq(LANES)
           /\ current_lane(wp) \in LANES
           /\ wp.log # <<>> => LastLane(wp.log) \in LANES
           /\ Len(wp.log) >= 2 => previous_lane(wp.log) \in LANES
<1>1. wp.log \in Seq(LANES) /\ wp.lane \in LANES \cup {"missing"}
  BY DEF Files
<1>2. current_lane(wp) \in LANES
  BY <1>1 DEF current_lane, LANES
<1>3. wp.log # <<>> => LastLane(wp.log) \in LANES
  BY <1>1 DEF LastLane
<1>4. Len(wp.log) >= 2 => previous_lane(wp.log) \in LANES
  BY <1>1 DEF previous_lane
<1> QED
  BY <1>1, <1>2, <1>3, <1>4

LEMMA TruncatedType == Truncated \in Files
BY DEF Truncated, Files, Encodings

(* A normalized file: its lane is kept, and its log if it was all cp1252.  *)
LEMMA NormalizedType ==
    ASSUME NEW wp \in Files
    PROVE  /\ Normalized(wp) \in Files
           /\ wp.encoding # "mixed" =>
                Normalized(wp).log = wp.log /\ Normalized(wp).lane = wp.lane
<1>1. CASE wp.encoding = "mixed"
  <2>1. Normalized(wp) = [Truncated EXCEPT !.lane = wp.lane]
    BY <1>1 DEF Normalized
  <2>2. wp.lane \in LANES \cup {"missing"}
    BY DEF Files
  <2>3. [Truncated EXCEPT !.lane = wp.lane] \in Files
    BY <2>2, TruncatedType DEF Files
  <2> QED
    BY <1>1, <2>1, <2>3
<1>2. CASE wp.encoding # "mixed"
  BY <1>2 DEF Normalized, Files, Encodings
<1> QED
  BY <1>1, <1>2

(* The file a command writes: its new entry, and its lane if it has one.   *)
LEMMA UpdatedType ==
    ASSUME NEW c \in Edits
    PROVE  /\ Updated(c) \in Files
           /\ Updated(c).log = Append(c.seen.log, c.lane)
           /\ Updated(c).lane = IF c.name = "history" /\ c.lane = c.current
                                THEN c.seen.lane ELSE c.lane
<1>1. c.seen \in Files /\ c.lane \in LANES
  BY DEF Edits
<1>2. /\ c.seen.log \in Seq(LANES) /\ c.seen.lane \in LANES \cup {"missing"}
      /\ c.seen.encoding \in Encodings /\ c.seen.examples \in {0, Len(Examples)}
  BY <1>1 DEF Files
<1>3. Append(c.seen.log, c.lane) \in Seq(LANES)
  BY <1>1, <1>2
<1> QED
  BY <1>1, <1>2, <1>3 DEF Updated, Files

LEMMA TypeInit == Init => TypeInv
<1> SUFFICES ASSUME Init PROVE TypeInv
  OBVIOUS
<1> USE DEF Init
<1>1. Born \subseteq Files
  <2>1. Examples \in Seq(LANES) /\ <<"planned", "done">> \in Seq(LANES)
    BY DEF LANES, Examples
  <2>2. Template \in Files
    BY <2>1 DEF Template, Files, LANES, Encodings
  <2>3. \A e \in Encodings : Finished(e) \in Files
    BY <2>1 DEF Finished, Files, LANES
  <2> QED
    BY <2>2, <2>3, TruncatedType DEF Born
<1>2. file \in [WPs -> Files]
  BY <1>1
<1>3. logged \in [WPs -> Seq(LANES)]
  BY <1>2, FileTypes
<1>4. cmd \in [Procs -> Commands]
  BY DEF Commands
<1>5. \A p \in Procs : cmd[p] \in Commands
  BY <1>4
<1>6. commands \in 0..MaxCommands
  BY BoundsAssumption
<1> QED
  BY <1>2, <1>3, <1>4, <1>5, <1>6, CommandTypes DEF TypeInv, TypeOK

(* A step leaves every variable well-typed if each one is.                 *)
LEMMA TypesKept ==
    ASSUME file' \in [WPs -> Files], index' \in [WPs -> Files], head' \in [WPs -> Files],
           meta_changed' \in BOOLEAN, meta_staged' \in BOOLEAN, commands' \in 0..MaxCommands,
           cmd' \in [Procs -> Commands], logged' \in [WPs -> Seq(LANES)],
           damaged' \subseteq WPs, stale' \subseteq Procs
    PROVE  TypeInv'
<1>1. \A p \in Procs : cmd'[p] \in Commands
  OBVIOUS
<1> QED
  BY <1>1, CommandTypes DEF TypeInv, TypeOK

(* The types of a step's new command, of each kind of step.                *)
LEMMA ReadsLaneType ==
    ASSUME TypeInv, NEW p \in Procs, NEW name \in Editors, NEW w \in WPs,
           NEW asked \in LANES \cup {"same"}, ReadsLane(p, name, w, asked)
    PROVE  cmd' \in [Procs -> Commands]
<1>1. current_lane(file[w]) \in LANES
  BY FileTypes DEF TypeInv, TypeOK
<1>2. [name |-> name, at |-> "locating", wp |-> w, asked |-> asked,
       current |-> current_lane(file[w])] \in Commands
  BY <1>1 DEF Commands, Locatings
<1> QED
  BY <1>2, RunsType DEF ReadsLane, TypeInv

LEMMA LocateType ==
    ASSUME TypeInv, NEW p \in Procs,
           \/ update_command(p) \/ history_command(p) \/ rollback_command(p)
           \/ UpdateByRollback(p) \/ ReadsText(p)
    PROVE  cmd' \in [Procs -> Commands]
<1>1. CASE update_command(p)
  BY <1>1, ReadsLaneType, BoundsAssumption DEF update_command, Editors
<1>2. CASE history_command(p)
  <2>1. PICK w \in WPs, lane \in Targets \cup {"same"} : ReadsLane(p, "history", w, lane)
    BY <1>2 DEF history_command
  <2> QED
    BY <2>1, ReadsLaneType, BoundsAssumption DEF Editors
<1>3. CASE rollback_command(p)
  <2>1. PICK w \in WPs :
          /\ Len(file[w].log) >= 2
          /\ Runs(p, [name |-> "rollback", at |-> "rolling", wp |-> w,
                      asked |-> previous_lane(file[w].log)])
    BY <1>3 DEF rollback_command
  <2>2. previous_lane(file[w].log) \in LANES
    BY <2>1, FileTypes DEF TypeInv, TypeOK
  <2>3. [name |-> "rollback", at |-> "rolling", wp |-> w,
         asked |-> previous_lane(file[w].log)] \in Commands
    BY <2>2 DEF Commands, Rollings
  <2> QED
    BY <2>1, <2>3, RunsType DEF TypeInv
<1>4. CASE UpdateByRollback(p)
  <2>1. cmd[p] \in Rollings
    BY <1>4, CommandAt DEF UpdateByRollback
  <2>2. cmd[p].wp \in WPs /\ cmd[p].asked \in LANES
    BY <2>1 DEF Rollings
  <2> QED
    BY <1>4, <2>2, ReadsLaneType DEF UpdateByRollback, Editors
<1>5. CASE ReadsText(p)
  <2> DEFINE c == cmd[p]
             next == [name |-> c.name, at |-> "loaded", wp |-> c.wp, current |-> c.current,
                      lane |-> IF c.asked = "same" THEN c.current ELSE c.asked,
                      seen |-> file[c.wp]]
  <2>1. c \in Locatings
    BY <1>5, CommandAt DEF ReadsText
  <2>2. /\ c.name \in Editors /\ c.wp \in WPs /\ c.current \in LANES
        /\ c.asked \in LANES \cup {"same"}
    BY <2>1 DEF Locatings
  <2>3. file[c.wp] \in Files
    BY <2>2 DEF TypeInv, TypeOK
  <2>4. next \in Edits
    BY <2>2, <2>3 DEF Edits
  <2>5. next \in Commands
    BY <2>4 DEF Commands
  <2>6. Quits(p) \/ Runs(p, next)
    BY <1>5 DEF ReadsText
  <2> QED
    BY <2>5, <2>6, RunsType, QuitsType DEF TypeInv
<1> QED
  BY <1>1, <1>2, <1>3, <1>4, <1>5

LEMMA GoesType ==
    ASSUME TypeInv, NEW p \in Procs, NEW step, Goes(p, step),
           \/ cmd[p] \in Edits /\ step \in {"loaded", "writing"}
           \/ cmd[p] \in Surveys /\ step \in {"reading", "checked", "recorded", "staged"}
           \/ cmd[p] \in Repairs /\ step \in {"decoded", "rewriting"}
    PROVE  cmd' \in [Procs -> Commands]
<1>1. [cmd[p] EXCEPT !.at = step] \in Edits \cup Surveys \cup Repairs
  <2>1. CASE cmd[p] \in Edits /\ step \in {"loaded", "writing"}
    BY <2>1 DEF Edits
  <2>2. CASE cmd[p] \in Surveys /\ step \in {"reading", "checked", "recorded", "staged"}
    BY <2>2 DEF Surveys
  <2>3. CASE cmd[p] \in Repairs /\ step \in {"decoded", "rewriting"}
    BY <2>3 DEF Repairs
  <2> QED
    BY <2>1, <2>2, <2>3
<1>2. [cmd[p] EXCEPT !.at = step] \in Commands
  BY <1>1 DEF Commands
<1> QED
  BY <1>2, RunsType DEF Goes, TypeInv

LEMMA AcceptType ==
    ASSUME TypeInv, NEW p \in Procs, accept_command(p)
    PROVE  cmd' \in [Procs -> Commands]
<1>1. ASSUME NEW todo \in SUBSET WPs, NEW step \in {"reading", "normalizing"}
      PROVE  [name |-> "accept", at |-> step, todo |-> todo] \in Commands
  BY DEF Commands, Surveys
<1>2. CASE StartsAccepting(p) \/ MeetsEncoding(p) \/ ReadsAgain(p) \/ Rewrites(p)
  BY <1>1, <1>2, RunsType DEF StartsAccepting, MeetsEncoding, ReadsAgain, Rewrites, TypeInv
<1>7. CASE ReadsBytes(p)
  <2>1. PICK w \in WPs :
          Runs(p, [name |-> "accept", at |-> "decoded", wp |-> w, seen |-> file[w]])
    BY <1>7 DEF ReadsBytes
  <2>2. [name |-> "accept", at |-> "decoded", wp |-> w, seen |-> file[w]] \in Commands
    BY DEF Commands, Repairs, TypeInv, TypeOK
  <2> QED
    BY <2>1, <2>2, RunsType DEF TypeInv
<1>8. CASE Empties(p)
  <2>1. cmd[p] \in Repairs
    BY <1>8, CommandAt DEF Empties, At
  <2> QED
    BY <1>8, <2>1, GoesType DEF Empties
<1>3. CASE ReadsLog(p)
  <2>1. cmd[p] \in Surveys
    BY <1>3, CommandAt DEF ReadsLog, At
  <2>2. PICK w \in cmd[p].todo :
          \/ Runs(p, [name |-> "accept", at |-> "texts", wp |-> w, todo |-> cmd[p].todo \ {w}])
          \/ Quits(p)
    BY <1>3 DEF ReadsLog
  <2>3. w \in WPs /\ cmd[p].todo \ {w} \in SUBSET WPs
    BY <2>1, <2>2 DEF Surveys
  <2>4. [name |-> "accept", at |-> "texts", wp |-> w, todo |-> cmd[p].todo \ {w}] \in Commands
    BY <2>3 DEF Commands, Texts
  <2> QED
    BY <2>2, <2>4, RunsType, QuitsType DEF TypeInv
<1>4. CASE ReadsLaneAgain(p)
  <2>1. cmd[p] \in Texts
    BY <1>4, CommandAt DEF ReadsLaneAgain
  <2>2. cmd[p].todo \in SUBSET WPs
    BY <2>1 DEF Texts
  <2>3. \/ Runs(p, [name |-> "accept", at |-> "reading", todo |-> cmd[p].todo])
        \/ Quits(p)
    BY <1>4 DEF ReadsLaneAgain
  <2> QED
    BY <1>1, <2>2, <2>3, RunsType, QuitsType DEF TypeInv
<1>5. CASE GitStatus(p) \/ WriteMeta(p) \/ AddMeta(p)
  <2>1. cmd[p] \in Surveys
    BY <1>5, CommandAt DEF GitStatus, WriteMeta, AddMeta, At
  <2>2. Quits(p) \/ \E step \in {"checked", "recorded", "staged"} : Goes(p, step)
    BY <1>5 DEF GitStatus, WriteMeta, AddMeta
  <2> QED
    BY <2>1, <2>2, GoesType, QuitsType DEF TypeInv
<1>6. CASE CommitAcceptance(p)
  BY <1>6, QuitsType DEF CommitAcceptance, TypeInv
<1> QED
  BY <1>2, <1>3, <1>4, <1>5, <1>6, <1>7, <1>8 DEF accept_command, normalize_feature_encoding

LEMMA TypeNext == TypeInv /\ [Next]_vars => TypeInv'
<1> SUFFICES ASSUME TypeInv, [Next]_vars PROVE TypeInv'
  OBVIOUS
<1> USE DEF TypeInv, TypeOK, disk, ghosts
<1>0. /\ commands \in 0..MaxCommands
      /\ \A p \in Procs : Starts(p) => commands' \in 0..MaxCommands
      /\ Checked \subseteq Procs /\ Reading \subseteq Procs
  BY BoundsAssumption DEF Starts, Checked, Reading
<1>1. ASSUME NEW p \in Procs,
             \/ update_command(p) \/ history_command(p) \/ rollback_command(p)
             \/ UpdateByRollback(p) \/ ReadsText(p)
      PROVE  TypeInv'
  <2>1. cmd' \in [Procs -> Commands]
    BY <1>1, LocateType
  <2>2. commands' \in 0..MaxCommands /\ UNCHANGED <<disk, logged, stale>>
    BY <1>0, <1>1 DEF update_command, history_command, rollback_command, UpdateByRollback,
       ReadsText
  <2>3. UNCHANGED damaged \/ \E w \in WPs : Overlap(p, w)
    BY <1>1 DEF update_command, history_command, rollback_command, UpdateByRollback,
       ReadsText
  <2>4. damaged' \subseteq WPs
    BY <2>3 DEF Overlap
  <2> QED
    BY <2>1, <2>2, <2>4, TypesKept
<1>2. ASSUME NEW p \in Procs, stage_update(p) PROVE TypeInv'
  <2> USE DEF stage_update, OpenForWriting, Fill, AddFile
  <2>1. /\ ~At(p, "adding") => cmd[p] \in Edits
        /\ At(p, "adding") => cmd[p] \in Stagings
    BY <1>2, CommandAt DEF At
  <2>2. cmd[p].wp \in WPs /\ (~At(p, "adding") => cmd[p].lane \in LANES /\ cmd[p].name \in Editors)
    BY <2>1 DEF Edits, Stagings
  <2>3. cmd' \in [Procs -> Commands]
    <3>1. CASE OpenForWriting(p)
      BY <3>1, <2>1, GoesType DEF At
    <3>2. CASE Fill(p)
      <4>1. [name |-> cmd[p].name, at |-> "adding", wp |-> cmd[p].wp] \in Commands
        BY <2>2, <3>2 DEF Commands, Stagings, At
      <4> QED
        BY <3>2, <4>1, RunsType
    <3>3. CASE AddFile(p)
      BY <3>3, QuitsType
    <3> QED
      BY <1>2, <3>1, <3>2, <3>3
  <2>4. file' \in [WPs -> Files]
    BY <1>2, <2>1, <2>2, TruncatedType, UpdatedType DEF At
  <2>5. index' \in [WPs -> Files]
    BY <1>2, <2>2
  <2>6. logged' \in [WPs -> Seq(LANES)]
    <3>1. CASE Fill(p)
      <4>1. logged[cmd[p].wp] \in Seq(LANES) /\ cmd[p].lane \in LANES
        BY <2>2, <3>1 DEF At
      <4>2. Append(logged[cmd[p].wp], cmd[p].lane) \in Seq(LANES)
        BY <4>1
      <4> QED
        BY <3>1, <4>2
    <3> QED
      BY <1>2, <3>1
  <2>7. stale' \subseteq Procs
    BY <1>0, <1>2 DEF Outdates, OutdatesFiles
  <2> QED
    BY <1>0, <1>2, <2>3, <2>4, <2>5, <2>6, <2>7, TypesKept
<1>3. ASSUME NEW p \in Procs, accept_command(p) PROVE TypeInv'
  <2> USE DEF accept_command, normalize_feature_encoding, MeetsEncoding, ReadsBytes, Empties,
              Rewrites, ReadsAgain, StartsAccepting, ReadsLog, ReadsLaneAgain, GitStatus,
              WriteMeta, AddMeta, CommitAcceptance
  <2>1. cmd' \in [Procs -> Commands]
    BY <1>3, AcceptType
  <2>2. Empties(p) \/ Rewrites(p) => cmd[p].wp \in WPs /\ cmd[p].seen \in Files
    <3>1. Empties(p) \/ Rewrites(p) => cmd[p] \in Repairs
      BY CommandAt DEF At
    <3> QED
      BY <3>1 DEF Repairs
  <2>3. file' \in [WPs -> Files]
    BY <1>3, <2>2, TruncatedType, NormalizedType
  <2>4. index' \in [WPs -> Files] /\ head' \in [WPs -> Files]
    BY <1>3
  <2>5. /\ meta_changed' \in BOOLEAN /\ meta_staged' \in BOOLEAN
        /\ commands' \in 0..MaxCommands
        /\ UNCHANGED logged
    BY <1>0, <1>3
  <2>6. damaged' \subseteq WPs
    <3>1. CASE ReadsBytes(p)
      <4>1. \E w \in WPs : Overlap(p, w)
        BY <3>1
      <4> QED
        BY <4>1 DEF Overlap
    <3>2. CASE Rewrites(p)
      BY <2>2, <3>2
    <3> QED
      BY <1>3, <3>1, <3>2
  <2>7. stale' \subseteq Procs
    BY <1>0, <1>3 DEF Outdates, OutdatesFiles
  <2> QED
    BY <2>1, <2>3, <2>4, <2>5, <2>6, <2>7, TypesKept
<1>4. ASSUME NEW p \in Procs, Stops(p) PROVE TypeInv'
  <2>1. cmd' \in [Procs -> Commands]
    BY <1>4, QuitsType DEF Stops
  <2>2. cmd[p].at \in {"writing", "rewriting"} => cmd[p].wp \in WPs
    BY CommandAt DEF Edits, Repairs
  <2> QED
    BY <1>4, <2>1, <2>2, TypesKept DEF Stops
<1>5. CASE CommitAll
  BY <1>0, <1>5, TypesKept DEF CommitAll
<1>6. CASE UNCHANGED vars
  BY <1>6, TypesKept DEF vars
<1> QED
  BY <1>1, <1>2, <1>3, <1>4, <1>5, <1>6 DEF Next

(* Every variable has its type in every reachable state: a rollback always *)
(* finds an entry to go back to, and no command ever writes a lane that is *)
(* not one (tasks_cli.py: rollback_command, update_command).               *)
THEOREM TypeCorrect == Spec => []TypeOK
<1>1. TypeInv => TypeOK
  BY DEF TypeInv
<1> QED
  BY <1>1, TypeInit, TypeNext, PTL DEF Spec
-----------------------------------------------------------------------------
(* Files and logs. As long as one command at a time has a WP open, what it *)
(* has read of the WP is what the WP is.                                   *)

Matches(wp) == wp.log # <<>> => current_lane(wp) = LastLane(wp.log)

Empty == {"writing", "rewriting"}

SoleOpen(w) == \A p, q \in Procs : HasOpen(p, w) /\ HasOpen(q, w) => p = q

GoesBack(to, log) == Len(log) >= 2 /\ to = previous_lane(log)

(* What a command that has w open knows of it.                             *)
Informed(p, w) ==
    LET c == cmd[p] IN
    /\ c.at \in {"rolling", "locating"} /\ c.name = "rollback" => GoesBack(c.asked, file[w].log)
    /\ c.at = "locating" => c.current = current_lane(file[w])
    /\ c.at \in {"loaded", "writing"} =>
           /\ c.seen.log = logged[w] /\ Matches(c.seen)
           /\ c.current = current_lane(c.seen)
           /\ c.name = "rollback" => GoesBack(c.lane, c.seen.log) /\ c.lane # c.current
    /\ c.at \in {"decoded", "rewriting"} => c.seen.log = logged[w] /\ Matches(c.seen)

FileInv(w) ==
    /\ SoleOpen(w)
    /\ Matches(file[w]) /\ Matches(index[w]) /\ Matches(head[w])
    /\ Written(w) \/ file[w].log = logged[w]
    /\ \A p \in Procs : HasOpen(p, w) => Informed(p, w)

FilesInv == TypeInv /\ \A w \in WPs \ damaged : FileInv(w)

SameFile(w) ==
    /\ file'[w].log = file[w].log /\ file'[w].lane = file[w].lane
    /\ logged'[w] = logged[w]
    /\ Matches(index'[w]) /\ Matches(head'[w])

LEMMA SameFileInformed ==
    ASSUME NEW w, SameFile(w), NEW q, cmd'[q] = cmd[q], Informed(q, w)
    PROVE  Informed(q, w)'
BY DEF SameFile, Informed, current_lane

(* A step of p that does not write w, and opens it only if nobody else has *)
(* it open.                                                                *)
LEMMA FileKept ==
    ASSUME TypeInv, NEW w \in WPs, FileInv(w), SameFile(w),
           NEW p \in Procs, NEW c, Runs(p, c),
           ~(cmd[p].at \in Empty /\ cmd[p].wp = w),
           HasOpen(p, w)' => Informed(p, w)' /\ ~Contested(p, w)
    PROVE  FileInv(w)'
<1>1. cmd'[p] = c /\ \A q \in Procs \ {p} : cmd'[q] = cmd[q]
  BY DEF Runs, TypeInv
<1>2. \A q \in Procs \ {p} : HasOpen(q, w)' <=> HasOpen(q, w)
  BY <1>1 DEF HasOpen
<1>3. SoleOpen(w)'
  BY <1>2 DEF FileInv, SoleOpen, Contested
<1>4. Matches(file'[w]) /\ Matches(index'[w]) /\ Matches(head'[w])
  BY DEF FileInv, SameFile, Matches, current_lane
<1>5. Written(w)' \/ file'[w].log = logged'[w]
  <2>1. CASE Written(w)
    BY <1>1, <2>1 DEF Written, Empty
  <2>2. CASE file[w].log = logged[w]
    BY <2>2 DEF SameFile
  <2> QED
    BY <2>1, <2>2 DEF FileInv
<1>6. ASSUME NEW q \in Procs, HasOpen(q, w)' PROVE Informed(q, w)'
  <2>1. CASE q = p
    BY <1>6, <2>1
  <2>2. CASE q # p
    <3>1. Informed(q, w)
      BY <1>2, <1>6, <2>2 DEF FileInv
    <3> QED
      BY <1>1, <2>2, <3>1, SameFileInformed
  <2> QED
    BY <2>1, <2>2
<1> QED
  BY <1>3, <1>4, <1>5, <1>6 DEF FileInv

LEMMA FileStill ==
    ASSUME NEW w \in WPs, FileInv(w), SameFile(w), UNCHANGED cmd
    PROVE  FileInv(w)'
<1>1. Matches(file'[w]) /\ Matches(index'[w]) /\ Matches(head'[w])
  BY DEF FileInv, SameFile, Matches, current_lane
<1>2. SoleOpen(w)' /\ (Written(w)' <=> Written(w))
  BY DEF FileInv, SoleOpen, HasOpen, Written
<1>3. ASSUME NEW q \in Procs, HasOpen(q, w)' PROVE Informed(q, w)'
  <2>1. HasOpen(q, w)
    BY <1>3 DEF HasOpen
  <2> QED
    BY <2>1, SameFileInformed DEF FileInv
<1>4. Written(w)' \/ file'[w].log = logged'[w]
  BY <1>2 DEF FileInv, SameFile
<1> QED
  BY <1>1, <1>2, <1>3, <1>4 DEF FileInv

(* Who has a WP open has it alone, and finds the log as it should be until *)
(* it empties the file.                                                    *)
LEMMA OpenAlone ==
    ASSUME NEW w \in WPs, FileInv(w), NEW p \in Procs, HasOpen(p, w)
    PROVE  ~Contested(p, w) /\ (cmd[p].at \in Empty \/ file[w].log = logged[w])
<1>1. ~Contested(p, w)
  BY DEF FileInv, SoleOpen, Contested
<1>2. Written(w) => cmd[p].at \in Empty
  <2> SUFFICES ASSUME NEW q \in Procs, cmd[q].at \in Empty, cmd[q].wp = w
               PROVE  q = p
    BY DEF Written, Empty
  <2> QED
    BY DEF FileInv, SoleOpen, HasOpen, Empty
<1> QED
  BY <1>1, <1>2 DEF FileInv

LEMMA StillSame ==
    ASSUME NEW w \in WPs, FileInv(w), UNCHANGED <<disk, logged>>
    PROVE  SameFile(w)
BY DEF FileInv, SameFile, disk

LEMMA ReadsLaneFile ==
    ASSUME TypeInv, NEW w \in WPs, FileInv(w), UNCHANGED <<disk, logged>>,
           NEW p \in Procs, NEW name, NEW v \in WPs, NEW asked,
           ReadsLane(p, name, v, asked), cmd[p].at \notin Empty,
           v = w => ~Contested(p, w),
           v = w /\ name = "rollback" => GoesBack(asked, file[w].log)
    PROVE  FileInv(w)'
<1> DEFINE c == [name |-> name, at |-> "locating", wp |-> v, asked |-> asked,
                 current |-> current_lane(file[v])]
<1>1. Runs(p, c) /\ cmd'[p] = c
  BY DEF ReadsLane, Runs, TypeInv
<1>2. HasOpen(p, w)' => v = w
  BY <1>1 DEF HasOpen
<1>3. v = w => Informed(p, w)'
  BY <1>1 DEF Informed, disk
<1> HIDE DEF c
<1> QED
  BY <1>1, <1>2, <1>3, StillSame, FileKept

LEMMA LocateFile ==
    ASSUME TypeInv, NEW w \in WPs \ damaged', w \notin damaged, FileInv(w), NEW p \in Procs,
           \/ update_command(p) \/ history_command(p) \/ rollback_command(p)
           \/ UpdateByRollback(p) \/ ReadsText(p)
    PROVE  FileInv(w)'
<1>1. UNCHANGED <<disk, logged>> /\ cmd[p].at \notin Empty
  BY DEF update_command, history_command, rollback_command, UpdateByRollback, ReadsText,
     Starts, At, Empty, ghosts
<1>2. Overlap(p, w) => ~Contested(p, w)
  BY DEF Overlap
<1>3. CASE update_command(p)
  <2>1. PICK v \in WPs, lane \in Targets : ReadsLane(p, "update", v, lane) /\ Overlap(p, v)
    BY <1>3 DEF update_command
  <2> QED
    BY <1>1, <1>2, <2>1, ReadsLaneFile
<1>4. CASE history_command(p)
  <2>1. PICK v \in WPs, lane \in Targets \cup {"same"} :
             ReadsLane(p, "history", v, lane) /\ Overlap(p, v)
    BY <1>4 DEF history_command
  <2> QED
    BY <1>1, <1>2, <2>1, ReadsLaneFile
<1>5. CASE rollback_command(p)
  <2>1. PICK v \in WPs :
          /\ Len(file[v].log) >= 2
          /\ Runs(p, [name |-> "rollback", at |-> "rolling", wp |-> v,
                      asked |-> previous_lane(file[v].log)])
          /\ Overlap(p, v)
    BY <1>5 DEF rollback_command
  <2>2. cmd'[p] = [name |-> "rollback", at |-> "rolling", wp |-> v,
                   asked |-> previous_lane(file[v].log)]
    BY <2>1 DEF Runs, TypeInv
  <2>3. HasOpen(p, w)' => v = w
    BY <2>2 DEF HasOpen
  <2>4. v = w => Informed(p, w)'
    BY <1>1, <2>1, <2>2 DEF Informed, GoesBack, disk
  <2> QED
    BY <1>1, <1>2, <2>1, <2>3, <2>4, StillSame, FileKept
<1>6. CASE UpdateByRollback(p)
  <2>1. At(p, "rolling") /\ ReadsLane(p, "rollback", cmd[p].wp, cmd[p].asked)
    BY <1>6 DEF UpdateByRollback
  <2>2. cmd[p] \in Rollings
    BY <2>1, CommandAt
  <2>3. cmd[p].wp \in WPs /\ cmd[p].name = "rollback"
    BY <2>2 DEF Rollings
  <2>4. cmd[p].wp = w => HasOpen(p, w)
    BY <2>1 DEF HasOpen, At
  <2>5. cmd[p].wp = w => GoesBack(cmd[p].asked, file[w].log)
    BY <2>1, <2>3, <2>4 DEF FileInv, Informed, At
  <2> QED
    BY <1>1, <2>1, <2>3, <2>4, <2>5, OpenAlone, ReadsLaneFile
<1>7. CASE ReadsText(p)
  <2> DEFINE c == cmd[p]
             next == [name |-> c.name, at |-> "loaded", wp |-> c.wp, current |-> c.current,
                      lane |-> IF c.asked = "same" THEN c.current ELSE c.asked,
                      seen |-> file[c.wp]]
  <2>1. At(p, "locating") /\ (Quits(p) \/ (~Refuses(c) /\ Runs(p, next)))
    BY <1>7 DEF ReadsText
  <2>2. CASE Quits(p)
    <3>1. ~HasOpen(p, w)'
      BY <2>2 DEF Quits, Runs, Idle, HasOpen, TypeInv
    <3> QED
      BY <1>1, <2>2, <3>1, StillSame, FileKept DEF Quits
  <2>3. CASE ~Refuses(c) /\ Runs(p, next)
    <3>1. cmd'[p] = next
      BY <2>3 DEF Runs, TypeInv
    <3>2. HasOpen(p, w)' => c.wp = w
      BY <3>1 DEF HasOpen
    <3>3. c.wp = w => HasOpen(p, w)
      BY <2>1 DEF HasOpen, At
    <3>4. c.wp = w => Informed(p, w)'
      <4> SUFFICES ASSUME c.wp = w PROVE Informed(p, w)'
        OBVIOUS
      <4>1. file[w].log = logged[w] /\ Informed(p, w)
        BY <1>1, <3>3, OpenAlone DEF FileInv
      <4>2. c.current = current_lane(file[w]) /\ Matches(file[w])
        BY <2>1, <4>1 DEF Informed, At, FileInv
      <4>3. ASSUME c.name = "rollback"
            PROVE  GoesBack(next.lane, file[w].log) /\ next.lane # c.current
        <5>1. GoesBack(c.asked, file[w].log)
          BY <2>1, <4>1, <4>3 DEF Informed, At
        <5>2. c.asked \in LANES
          BY <5>1, FileTypes DEF GoesBack, TypeInv, TypeOK
        <5>3. next.lane = c.asked
          BY <5>2 DEF LANES
        <5> QED
          BY <2>3, <4>3, <5>1, <5>3 DEF Refuses
      <4>4. cmd'[p].at = "loaded" /\ cmd'[p].seen = file[w] /\ cmd'[p].name = c.name
            /\ cmd'[p].current = c.current /\ cmd'[p].lane = next.lane
        BY <3>1
      <4> HIDE DEF next
      <4> QED
        BY <1>1, <4>1, <4>2, <4>3, <4>4 DEF Informed
    <3> HIDE DEF next
    <3> QED
      BY <1>1, <2>3, <3>2, <3>3, <3>4, StillSame, OpenAlone, FileKept
  <2> QED
    BY <2>1, <2>2, <2>3
<1> QED
  BY <1>3, <1>4, <1>5, <1>6, <1>7

(* A step that only moves a command on.                                    *)
LEMMA GoesOn ==
    ASSUME TypeInv, NEW p \in Procs, NEW step, Goes(p, step), cmd[p] \in Edits \cup Repairs
    PROVE  /\ cmd'[p].at = step /\ cmd'[p].wp = cmd[p].wp /\ cmd'[p].name = cmd[p].name
           /\ cmd'[p].seen = cmd[p].seen
           /\ cmd[p] \in Edits => /\ cmd'[p].lane = cmd[p].lane
                                   /\ cmd'[p].current = cmd[p].current
           /\ \A q \in Procs \ {p} : cmd'[q] = cmd[q]
<1>1. /\ cmd'[p] = [cmd[p] EXCEPT !.at = step]
      /\ \A q \in Procs \ {p} : cmd'[q] = cmd[q]
  BY DEF Goes, Runs, TypeInv
<1>2. CASE cmd[p] \in Edits
  BY <1>1, <1>2 DEF Edits
<1>3. CASE cmd[p] \in Repairs
  BY <1>1, <1>3 DEF Edits, Repairs
<1> QED
  BY <1>2, <1>3

(* write_text of update and of normalize_feature_encoding: the file is     *)
(* empty, and what the command has read of it is as it was.                *)
LEMMA OpenFile ==
    ASSUME TypeInv, NEW w \in WPs, FileInv(w), NEW p \in Procs,
           OpenForWriting(p) \/ Empties(p)
    PROVE  FileInv(w)'
<1>1. \/ At(p, "loaded") /\ Goes(p, "writing") /\ cmd[p] \in Edits
      \/ At(p, "decoded") /\ Goes(p, "rewriting") /\ cmd[p] \in Repairs
  BY CommandAt DEF OpenForWriting, Empties, At
<1>2. /\ cmd'[p].at = IF At(p, "loaded") THEN "writing" ELSE "rewriting"
      /\ cmd'[p].wp = cmd[p].wp /\ cmd'[p].name = cmd[p].name
      /\ cmd'[p].seen = cmd[p].seen
      /\ At(p, "loaded") => /\ cmd'[p].lane = cmd[p].lane
                            /\ cmd'[p].current = cmd[p].current
      /\ \A q \in Procs \ {p} : cmd'[q] = cmd[q]
  BY <1>1, GoesOn DEF At
<1>3. UNCHANGED <<index, head, logged>> /\ file' = [file EXCEPT ![cmd[p].wp] = Truncated]
  BY DEF OpenForWriting, Empties
<1>4. \A q \in Procs : HasOpen(q, w)' <=> HasOpen(q, w)
  BY <1>1, <1>2 DEF HasOpen, At
<1>5. CASE cmd[p].wp # w
  <2>1. file'[w] = file[w]
    BY <1>3, <1>5 DEF TypeInv, TypeOK
  <2>2. SameFile(w)
    BY <1>3, <2>1 DEF SameFile, FileInv
  <2> QED
    BY <1>1, <1>2, <1>5, <2>2, FileKept DEF Goes, HasOpen
<1>6. CASE cmd[p].wp = w
  <2>1. HasOpen(p, w) /\ Informed(p, w)
    BY <1>1, <1>6 DEF HasOpen, At, FileInv
  <2>2. file'[w] = Truncated
    BY <1>3, <1>6 DEF TypeInv, TypeOK
  <2>3. Matches(file'[w]) /\ Matches(index'[w]) /\ Matches(head'[w])
    BY <1>3, <2>2 DEF Matches, Truncated, FileInv
  <2>4. SoleOpen(w)'
    BY <1>4 DEF SoleOpen, FileInv
  <2>5. Written(w)'
    BY <1>2, <1>6 DEF Written, At
  <2>6. Informed(p, w)'
    BY <1>1, <1>2, <1>3, <2>1 DEF Informed, At
  <2>7. \A q \in Procs : HasOpen(q, w)' => q = p
    BY <1>4, <2>1 DEF FileInv, SoleOpen
  <2> QED
    BY <2>3, <2>4, <2>5, <2>6, <2>7 DEF FileInv
<1> QED
  BY <1>5, <1>6

(* A step that ends p's hold on w, with a file that matches its log.       *)
LEMMA FileReleased ==
    ASSUME TypeInv, NEW w \in WPs, FileInv(w), NEW p \in Procs, HasOpen(p, w),
           NEW c, Runs(p, c), ~HasOpen(p, w)', UNCHANGED <<index, head>>,
           Matches(file'[w]), file'[w].log = logged'[w]
    PROVE  FileInv(w)'
<1>1. \A q \in Procs \ {p} : cmd'[q] = cmd[q]
  BY DEF Runs, TypeInv
<1>2. \A q \in Procs : ~HasOpen(q, w)'
  BY <1>1 DEF HasOpen, FileInv, SoleOpen
<1> QED
  BY <1>2 DEF FileInv, SoleOpen

LEMMA FillFile ==
    ASSUME TypeInv, NEW w \in WPs, FileInv(w), NEW p \in Procs, Fill(p)
    PROVE  FileInv(w)'
<1> DEFINE c == cmd[p]
           next == [name |-> c.name, at |-> "adding", wp |-> c.wp]
<1>1. At(p, "writing") /\ Runs(p, next) /\ c \in Edits
  BY CommandAt DEF Fill, At
<1>2. cmd'[p] = next /\ ~HasOpen(p, w)'
  BY <1>1 DEF Runs, HasOpen, TypeInv
<1>3. /\ UNCHANGED <<index, head>>
      /\ file' = [file EXCEPT ![c.wp] = Updated(c)]
      /\ logged' = [logged EXCEPT ![c.wp] = Append(logged[c.wp], c.lane)]
  BY DEF Fill
<1>4. CASE c.wp # w
  <2>1. file'[w] = file[w] /\ logged'[w] = logged[w]
    BY <1>3, <1>4 DEF TypeInv, TypeOK
  <2>2. SameFile(w)
    BY <1>3, <2>1 DEF SameFile, FileInv
  <2> HIDE DEF next
  <2> QED
    BY <1>1, <1>2, <1>4, <2>2, FileKept
<1>5. CASE c.wp = w
  <2>1. HasOpen(p, w) /\ Informed(p, w)
    BY <1>1, <1>5 DEF HasOpen, At, FileInv
  <2>2. c.seen.log = logged[w] /\ c.current = current_lane(c.seen)
    BY <1>1, <2>1 DEF Informed, At
  <2>3. file'[w] = Updated(c) /\ logged'[w] = Append(logged[w], c.lane)
    BY <1>3, <1>5 DEF TypeInv, TypeOK
  <2>4. file'[w].log = logged'[w]
    BY <1>1, <2>2, <2>3, UpdatedType
  <2>5. LastLane(file'[w].log) = c.lane
    <3>1. logged[w] \in Seq(LANES) /\ c.lane \in LANES
      BY <1>1 DEF Edits, TypeInv, TypeOK
    <3> QED
      BY <2>3, <2>4, <3>1 DEF LastLane
  <2>6. current_lane(file'[w]) = c.lane
    <3>1. c.lane # "missing"
      BY <1>1 DEF Edits, LANES
    <3> QED
      BY <1>1, <2>2, <2>3, <3>1, UpdatedType DEF current_lane
  <2>7. Matches(file'[w])
    BY <2>5, <2>6 DEF Matches
  <2> HIDE DEF next
  <2> QED
    BY <1>1, <1>2, <1>3, <2>1, <2>4, <2>7, FileReleased
<1> QED
  BY <1>4, <1>5

(* A file normalized from mixed encodings is damaged by it.                *)
LEMMA RewrittenFile ==
    ASSUME TypeInv, NEW w \in WPs \ damaged', FileInv(w), NEW p \in Procs, Rewrites(p)
    PROVE  FileInv(w)'
<1> DEFINE c == cmd[p]
           next == [name |-> "accept", at |-> "normalizing", todo |-> WPs]
<1>1. At(p, "rewriting") /\ Runs(p, next) /\ c \in Repairs
  BY CommandAt DEF Rewrites, At
<1>2. cmd'[p] = next /\ ~HasOpen(p, w)'
  BY <1>1 DEF Runs, HasOpen, TypeInv
<1>3. UNCHANGED <<index, head, logged>> /\ file' = [file EXCEPT ![c.wp] = Normalized(c.seen)]
  BY DEF Rewrites
<1>4. CASE c.wp # w
  <2>1. file'[w] = file[w] /\ logged'[w] = logged[w]
    BY <1>3, <1>4 DEF TypeInv, TypeOK
  <2>2. SameFile(w)
    BY <1>3, <2>1 DEF SameFile, FileInv
  <2> HIDE DEF next
  <2> QED
    BY <1>1, <1>2, <1>4, <2>2, FileKept
<1>5. CASE c.wp = w
  <2>1. HasOpen(p, w) /\ Informed(p, w)
    BY <1>1, <1>5 DEF HasOpen, At, FileInv
  <2>2. c.seen.log = logged[w] /\ Matches(c.seen)
    BY <1>1, <2>1 DEF Informed, At
  <2>3. c.seen.encoding # "mixed"
    BY <1>5 DEF Rewrites
  <2>4. file'[w].log = c.seen.log /\ file'[w].lane = c.seen.lane
    BY <1>1, <1>3, <1>5, <2>3, NormalizedType DEF Repairs, TypeInv, TypeOK
  <2>5. file'[w].log = logged'[w] /\ Matches(file'[w])
    BY <1>3, <2>2, <2>4 DEF Matches, current_lane
  <2> HIDE DEF next
  <2> QED
    BY <1>1, <1>2, <1>3, <2>1, <2>5, FileReleased
<1> QED
  BY <1>4, <1>5

LEMMA AddedFile ==
    ASSUME TypeInv, NEW w \in WPs, FileInv(w), NEW p \in Procs, AddFile(p)
    PROVE  FileInv(w)'
<1>1. At(p, "adding") /\ Quits(p) /\ UNCHANGED <<file, head, logged>>
      /\ index' = [index EXCEPT ![cmd[p].wp] = file[cmd[p].wp]]
  BY DEF AddFile
<1>2. index'[w] \in {index[w], file[w]}
  BY <1>1 DEF TypeInv, TypeOK
<1>3. SameFile(w)
  BY <1>1, <1>2 DEF SameFile, FileInv
<1>4. ~HasOpen(p, w)'
  BY <1>1 DEF Quits, Runs, Idle, HasOpen, TypeInv
<1> QED
  BY <1>1, <1>3, <1>4, FileKept DEF Quits, At, Empty

LEMMA RunsNow ==
    ASSUME TypeInv, NEW p \in Procs, NEW c, Runs(p, c)
    PROVE  cmd'[p] = c /\ Runs(p, cmd'[p])
BY DEF Runs, TypeInv

(* Where a step of an acceptance leads.                                    *)
LEMMA AcceptRuns ==
    ASSUME TypeInv, NEW p \in Procs, accept_command(p)
    PROVE  /\ Runs(p, cmd'[p])
           /\ cmd'[p].at \in {"idle", "reading", "texts", "normalizing", "decoded",
                              "rewriting", "checked", "recorded", "staged"}
<1>1. Quits(p) => Runs(p, cmd'[p]) /\ cmd'[p].at = "idle"
  BY RunsNow DEF Quits, Idle
<1>2. CASE StartsAccepting(p) \/ MeetsEncoding(p) \/ Rewrites(p) \/ ReadsAgain(p)
  BY <1>2, RunsNow DEF StartsAccepting, MeetsEncoding, Rewrites, ReadsAgain
<1>8. CASE ReadsBytes(p)
  <2>1. PICK w \in WPs :
          Runs(p, [name |-> "accept", at |-> "decoded", wp |-> w, seen |-> file[w]])
    BY <1>8 DEF ReadsBytes
  <2> QED
    BY <2>1, RunsNow
<1>7. CASE Empties(p)
  <2>1. cmd[p] \in Repairs
    BY <1>7, CommandAt DEF Empties, At
  <2> QED
    BY <1>7, <2>1, GoesOn, RunsNow DEF Empties, Goes
<1>3. CASE ReadsLog(p)
  <2>1. PICK w \in cmd[p].todo :
          \/ Runs(p, [name |-> "accept", at |-> "texts", wp |-> w, todo |-> cmd[p].todo \ {w}])
          \/ Quits(p)
    BY <1>3 DEF ReadsLog
  <2> QED
    BY <1>1, <2>1, RunsNow
<1>4. CASE ReadsLaneAgain(p)
  <2>1. \/ Runs(p, [name |-> "accept", at |-> "reading", todo |-> cmd[p].todo])
        \/ Quits(p)
    BY <1>4 DEF ReadsLaneAgain
  <2> QED
    BY <1>1, <2>1, RunsNow
<1>5. CASE GitStatus(p) \/ WriteMeta(p) \/ AddMeta(p)
  <2>1. Quits(p) \/ \E step \in {"checked", "recorded", "staged"} : Goes(p, step)
    BY <1>5 DEF GitStatus, WriteMeta, AddMeta
  <2>2. cmd[p] \in Surveys
    BY <1>5, CommandAt DEF GitStatus, WriteMeta, AddMeta, At
  <2>3. \A step : [cmd[p] EXCEPT !.at = step].at = step
    BY <2>2 DEF Surveys
  <2> QED
    BY <1>1, <2>1, <2>3, RunsNow DEF Goes
<1>6. CASE CommitAcceptance(p)
  BY <1>1, <1>6 DEF CommitAcceptance
<1> QED
  BY <1>2, <1>3, <1>4, <1>5, <1>6, <1>7, <1>8 DEF accept_command, normalize_feature_encoding

LEMMA AcceptFile ==
    ASSUME TypeInv, NEW w \in WPs \ damaged', w \notin damaged, FileInv(w),
           NEW p \in Procs, accept_command(p)
    PROVE  FileInv(w)'
<1>1. CASE \/ StartsAccepting(p) \/ ReadsLog(p) \/ ReadsLaneAgain(p) \/ GitStatus(p)
           \/ WriteMeta(p) \/ AddMeta(p) \/ CommitAcceptance(p)
           \/ MeetsEncoding(p) \/ ReadsAgain(p)
  <2> USE DEF StartsAccepting, ReadsLog, ReadsLaneAgain, GitStatus, WriteMeta, AddMeta,
              CommitAcceptance, MeetsEncoding, ReadsAgain
  <2>1. SameFile(w)
    BY <1>1 DEF SameFile, FileInv, disk, ghosts
  <2>2. cmd[p].at \notin Empty
    BY <1>1 DEF Starts, At, Empty
  <2>3. Runs(p, cmd'[p])
    BY <1>1, AcceptRuns DEF accept_command, normalize_feature_encoding
  <2>4. ~HasOpen(p, w)'
    <3>1. cmd'[p].at \notin {"rolling", "locating", "loaded", "writing", "decoded", "rewriting"}
      <4>1. Quits(p) => cmd'[p].at = "idle"
        BY RunsNow DEF Quits, Idle
      <4>2. CASE StartsAccepting(p) \/ MeetsEncoding(p) \/ ReadsAgain(p)
        BY <4>2, RunsNow
      <4>3. CASE ReadsLog(p)
        <5>1. PICK v \in cmd[p].todo :
                \/ Runs(p, [name |-> "accept", at |-> "texts", wp |-> v,
                            todo |-> cmd[p].todo \ {v}])
                \/ Quits(p)
          BY <4>3
        <5> QED
          BY <4>1, <5>1, RunsNow
      <4>4. CASE ReadsLaneAgain(p)
        <5>1. \/ Runs(p, [name |-> "accept", at |-> "reading", todo |-> cmd[p].todo])
              \/ Quits(p)
          BY <4>4
        <5> QED
          BY <4>1, <5>1, RunsNow
      <4>5. CASE GitStatus(p) \/ WriteMeta(p) \/ AddMeta(p) \/ CommitAcceptance(p)
        <5>1. Quits(p) \/ \E step \in {"checked", "recorded", "staged"} : Goes(p, step)
          BY <4>5
        <5>2. cmd[p] \in Surveys
          BY <4>5, CommandAt DEF At
        <5>3. \A step : [cmd[p] EXCEPT !.at = step].at = step
          BY <5>2 DEF Surveys
        <5> QED
          BY <4>1, <5>1, <5>3, RunsNow DEF Goes
      <4> QED
        BY <1>1, <4>2, <4>3, <4>4, <4>5
    <3> QED
      BY <3>1 DEF HasOpen
  <2> QED
    BY <2>1, <2>2, <2>3, <2>4, FileKept
<1>2. CASE ReadsBytes(p)
  <2>1. PICK v \in WPs :
          /\ Runs(p, [name |-> "accept", at |-> "decoded", wp |-> v, seen |-> file[v]])
          /\ Overlap(p, v)
    BY <1>2 DEF ReadsBytes
  <2> DEFINE next == [name |-> "accept", at |-> "decoded", wp |-> v, seen |-> file[v]]
  <2>2. UNCHANGED <<disk, logged>> /\ cmd[p].at \notin Empty
    BY <1>2 DEF ReadsBytes, At, Empty
  <2>3. cmd'[p] = next
    BY <2>1, RunsNow
  <2>4. HasOpen(p, w)' => v = w
    BY <2>3 DEF HasOpen
  <2>5. v = w => ~Contested(p, w)
    BY <2>1 DEF Overlap
  <2>6. v = w => Informed(p, w)'
    <3> SUFFICES ASSUME v = w PROVE Informed(p, w)'
      OBVIOUS
    <3>1. ~Written(w)
      BY <2>2, <2>5 DEF Written, Contested, HasOpen, Empty
    <3>2. file[w].log = logged[w] /\ Matches(file[w])
      BY <3>1 DEF FileInv
    <3> QED
      BY <2>2, <2>3, <3>2 DEF Informed
  <2> HIDE DEF next
  <2> QED
    BY <2>1, <2>2, <2>4, <2>5, <2>6, StillSame, FileKept DEF next
<1>3. CASE Empties(p)
  BY <1>3, OpenFile
<1>4. CASE Rewrites(p)
  BY <1>4, RewrittenFile
<1> QED
  BY <1>1, <1>2, <1>3, <1>4 DEF accept_command, normalize_feature_encoding

LEMMA StopFile ==
    ASSUME TypeInv, NEW w \in WPs \ damaged', FileInv(w), NEW p \in Procs, Stops(p)
    PROVE  FileInv(w)'
<1>1. Quits(p) /\ UNCHANGED <<disk, logged>> /\ ~(cmd[p].at \in Empty /\ cmd[p].wp = w)
  BY DEF Stops, Empty
<1>2. ~HasOpen(p, w)'
  BY <1>1 DEF Quits, Runs, Idle, HasOpen, TypeInv
<1> QED
  BY <1>1, <1>2, StillSame, FileKept DEF Quits

(* A WP once damaged stays so.                                             *)
LEMMA DamageStays == [Next]_vars => damaged \subseteq damaged'
<1> SUFFICES ASSUME [Next]_vars PROVE damaged \subseteq damaged'
  OBVIOUS
<1> USE DEF ghosts
<1>1. ASSUME NEW p \in Procs,
             \/ update_command(p) \/ history_command(p) \/ rollback_command(p)
             \/ UpdateByRollback(p) \/ ReadsText(p)
      PROVE  damaged \subseteq damaged'
  BY <1>1 DEF update_command, history_command, rollback_command, UpdateByRollback, ReadsText,
     Overlap
<1>2. ASSUME NEW p \in Procs, stage_update(p) \/ accept_command(p)
      PROVE  damaged \subseteq damaged'
  BY <1>2 DEF stage_update, OpenForWriting, Fill, AddFile, accept_command,
     normalize_feature_encoding, MeetsEncoding, ReadsBytes, Empties, Rewrites, ReadsAgain,
     Overlap, StartsAccepting, ReadsLog, ReadsLaneAgain, GitStatus, WriteMeta, AddMeta,
     CommitAcceptance
<1>3. ASSUME NEW p \in Procs, Stops(p) PROVE damaged \subseteq damaged'
  BY <1>3 DEF Stops
<1>4. CASE CommitAll \/ UNCHANGED vars
  BY <1>4 DEF CommitAll, vars
<1> QED
  BY <1>1, <1>2, <1>3, <1>4 DEF Next

LEMMA FilesInit == Init => FilesInv
<1> SUFFICES ASSUME Init PROVE FilesInv
  OBVIOUS
<1>1. TypeInv
  BY TypeInit
<1>2. \A w \in WPs, p \in Procs : ~HasOpen(p, w)
  BY DEF Init, HasOpen, Idle
<1>3. ASSUME NEW w \in WPs PROVE Matches(file[w])
  <2>1. CASE file[w] = Template
    <3>1. /\ Len(Append(Examples, "planned")) = 5
          /\ Append(Examples, "planned")[5] = "planned"
      BY DEF Examples
    <3>2. file[w].lane = "planned" /\ file[w].log = Append(Examples, "planned")
      BY <2>1 DEF Template
    <3> QED
      BY <3>1, <3>2 DEF Matches, current_lane, LastLane
  <2>3. CASE file[w] = Truncated
    BY <2>3 DEF Truncated, Matches
  <2>2. ASSUME NEW e \in Encodings, file[w] = Finished(e) PROVE Matches(file[w])
    BY <2>2 DEF Finished, Matches, current_lane, LastLane
  <2> QED
    BY <2>1, <2>2, <2>3 DEF Init, Born
<1>4. ASSUME NEW w \in WPs PROVE FileInv(w)
  BY <1>2, <1>3 DEF FileInv, SoleOpen, Init
<1> QED
  BY <1>1, <1>4 DEF FilesInv

LEMMA FilesNext == FilesInv /\ [Next]_vars => FilesInv'
<1> SUFFICES ASSUME FilesInv, [Next]_vars, NEW w \in WPs \ damaged' PROVE FileInv(w)'
  BY TypeNext DEF FilesInv
<1>0. TypeInv /\ w \in WPs /\ w \notin damaged /\ FileInv(w)
  BY DamageStays DEF FilesInv
<1>1. ASSUME NEW p \in Procs,
             \/ update_command(p) \/ history_command(p) \/ rollback_command(p)
             \/ UpdateByRollback(p) \/ ReadsText(p)
      PROVE  FileInv(w)'
  BY <1>0, <1>1, LocateFile
<1>2. ASSUME NEW p \in Procs, stage_update(p) PROVE FileInv(w)'
  BY <1>0, <1>2, OpenFile, FillFile, AddedFile DEF stage_update
<1>3. ASSUME NEW p \in Procs, accept_command(p) PROVE FileInv(w)'
  BY <1>0, <1>3, AcceptFile
<1>4. ASSUME NEW p \in Procs, Stops(p) PROVE FileInv(w)'
  BY <1>0, <1>4, StopFile
<1>5. CASE CommitAll
  <2>1. SameFile(w) /\ UNCHANGED cmd
    BY <1>0, <1>5 DEF CommitAll, SameFile, FileInv
  <2> QED
    BY <1>0, <2>1, FileStill
<1>6. CASE UNCHANGED vars
  <2>1. SameFile(w) /\ UNCHANGED cmd
    BY <1>0, <1>6, StillSame DEF vars, ghosts
  <2> QED
    BY <1>0, <2>1, FileStill
<1> QED
  BY <1>1, <1>2, <1>3, <1>4, <1>5, <1>6 DEF Next

(* A WP file with a log is in the lane its last entry names, in the        *)
(* directory, the index and HEAD, as long as no two commands had the WP    *)
(* open at a time (tasks_cli.py: stage_update, history_command).           *)
THEOREM LanesMatchLogs == Spec => []LaneMatchesLog
<1>1. FilesInv => LaneMatchesLog
  BY DEF FilesInv, FileInv, Matches, LaneMatchesLog
<1> QED
  BY <1>1, FilesInit, FilesNext, PTL DEF Spec

(* No entry of an activity log is lost, but by two commands that had the   *)
(* WP open at a time or one killed while it wrote (tasks_cli.py:           *)
(* stage_update, history_command).                                         *)
THEOREM EntriesAreKept == Spec => []NoEntryLost
<1>1. FilesInv => NoEntryLost
  BY DEF FilesInv, FileInv, NoEntryLost
<1> QED
  BY <1>1, FilesInit, FilesNext, PTL DEF Spec

(* The lane of the entry before the last is the prior lane, when the last  *)
(* entry changed the lane and both are no examples.                        *)
LEMMA PreviousIsPrior ==
    ASSUME NEW log \in Seq(LANES), NEW n \in Nat, Len(log) >= n + 2,
           previous_lane(log) # LastLane(log)
    PROVE  previous_lane(log) \in PriorLanes(log, n)
<1> DEFINE k == Len(log) - 1
<1>1. k \in n + 1..Len(log) /\ k + 1..Len(log) = {Len(log)}
  OBVIOUS
<1>2. log[k] # LastLane(log) /\ \A j \in k + 1..Len(log) : log[j] = LastLane(log)
  BY <1>1 DEF previous_lane, LastLane
<1> QED
  BY <1>1, <1>2 DEF PriorLanes, previous_lane

(* A rollback that writes returns the WP to the lane it was in before its  *)
(* last change, unless another command on the WP overlapped or it goes     *)
(* back to an example of the template: the lane it takes from the log is   *)
(* not the one the file is in (tasks_cli.py: rollback_command,             *)
(* update_command).                                                        *)
THEOREM RollbacksGoBack == Spec => RollbackToPriorLane
<1>1. FilesInv =>
        [\A p \in Procs :
           RollsBack(p) /\ Len(logged[cmd[p].wp]) >= cmd[p].seen.examples + 2
           => cmd[p].lane \in PriorLanes(logged[cmd[p].wp], cmd[p].seen.examples)]_vars
  <2> SUFFICES ASSUME FilesInv, NEW p \in Procs, RollsBack(p),
                      Len(logged[cmd[p].wp]) >= cmd[p].seen.examples + 2
               PROVE  cmd[p].lane \in PriorLanes(logged[cmd[p].wp], cmd[p].seen.examples)
    OBVIOUS
  <2> DEFINE c == cmd[p]
             log == logged[c.wp]
             n == c.seen.examples
  <2>1. At(p, "writing") /\ c \in Edits /\ TypeInv /\ c.name = "rollback"
    BY CommandAt DEF RollsBack, Fill, At, FilesInv
  <2>2. c.wp \in WPs /\ c.seen \in Files
    BY <2>1 DEF Edits
  <2>3. FileInv(c.wp) /\ HasOpen(p, c.wp)
    BY <2>1, <2>2 DEF RollsBack, FilesInv, HasOpen, At
  <2>4. /\ c.seen.log = log /\ Matches(c.seen) /\ c.current = current_lane(c.seen)
        /\ GoesBack(c.lane, log) /\ c.lane # c.current
    BY <2>1, <2>3 DEF FileInv, Informed, At
  <2>5. log \in Seq(LANES)
    BY <2>1, <2>2 DEF TypeInv, TypeOK
  <2>6. n \in Nat
    BY <2>2 DEF Files, Examples
  <2>7. log # <<>>
    BY <2>4, <2>5 DEF GoesBack
  <2>8. c.current = LastLane(log)
    BY <2>4, <2>7 DEF Matches
  <2>9. c.lane \in PriorLanes(log, n)
    BY <2>4, <2>5, <2>6, <2>8, PreviousIsPrior DEF GoesBack
  <2> QED
    BY <2>9
<1> QED
  BY <1>1, FilesInit, FilesNext, PTL DEF Spec, RollbackToPriorLane
-----------------------------------------------------------------------------
(* Acceptance. What an accepting process has found so far is still so, as  *)
(* long as its view is not out of date.                                    *)

DoneLog(wp) == wp.log # <<>> /\ LastLane(wp.log) = "done"

View(p) ==
    LET c == cmd[p] IN
    /\ c.at = "reading" => \A w \in WPs \ c.todo : Ready(file[w])
    /\ c.at = "texts" =>
           DoneLog(file[c.wp]) /\ \A w \in WPs \ (c.todo \cup {c.wp}) : Ready(file[w])
    /\ c.at \in {"checked", "recorded", "staged"} =>
           file = index /\ index = head /\ \A w \in WPs : Ready(file[w])

AcceptInv == TypeInv /\ \A p \in Procs \ stale : View(p)

LEMMA NoView ==
    ASSUME NEW p, cmd'[p].at \notin {"reading", "texts", "checked", "recorded", "staged"}
    PROVE  View(p)'
BY DEF View

LEMMA ViewStays ==
    ASSUME NEW p, View(p), cmd'[p] = cmd[p], UNCHANGED <<file, index, head>>
    PROVE  View(p)'
BY DEF View

(* Who has not checked yet looks at the files only, and who has not begun  *)
(* to read at nothing.                                                     *)
LEMMA OtherView ==
    ASSUME NEW p \in Procs, View(p), cmd'[p] = cmd[p], p \notin Checked,
           UNCHANGED file \/ p \notin Reading
    PROVE  View(p)'
BY DEF View, Checked, Reading

LEMMA AcceptView ==
    ASSUME TypeInv, NEW p \in Procs \ stale', p \notin stale => View(p), accept_command(p)
    PROVE  View(p)'
<1>1. CASE StartsAccepting(p) \/ ReadsAgain(p)
  <2>1. cmd'[p] = [name |-> "accept", at |-> "reading", todo |-> WPs]
    BY <1>1, RunsNow DEF StartsAccepting, ReadsAgain
  <2> QED
    BY <2>1 DEF View
<1>8. CASE MeetsEncoding(p) \/ ReadsBytes(p) \/ Empties(p) \/ Rewrites(p)
  <2>1. CASE Empties(p)
    <3>1. cmd[p] \in Repairs
      BY <2>1, CommandAt DEF Empties, At
    <3> QED
      BY <2>1, <3>1, GoesOn, NoView DEF Empties
  <2>2. CASE MeetsEncoding(p) \/ Rewrites(p)
    BY <2>2, RunsNow, NoView DEF MeetsEncoding, Rewrites
  <2>3. CASE ReadsBytes(p)
    <3>1. PICK w \in WPs :
            Runs(p, [name |-> "accept", at |-> "decoded", wp |-> w, seen |-> file[w]])
      BY <2>3 DEF ReadsBytes
    <3> QED
      BY <3>1, RunsNow, NoView
  <2> QED
    BY <1>8, <2>1, <2>2, <2>3
<1>2. Quits(p) => View(p)'
  BY RunsNow, NoView DEF Quits, Idle
<1>3. CASE ReadsLog(p)
  <2>1. View(p) /\ At(p, "reading") /\ UNCHANGED file /\ cmd[p] \in Surveys
    BY <1>3, CommandAt DEF ReadsLog, ghosts, disk, At
  <2>2. CASE Quits(p)
    BY <1>2, <2>2
  <2>3. ASSUME NEW w \in cmd[p].todo, DoneLog(file[w]),
               Runs(p, [name |-> "accept", at |-> "texts", wp |-> w, todo |-> cmd[p].todo \ {w}])
        PROVE  View(p)'
    <3>1. /\ cmd'[p].at = "texts" /\ cmd'[p].wp = w /\ cmd'[p].todo = cmd[p].todo \ {w}
      BY <2>3, RunsNow
    <3> QED
      BY <2>1, <2>3, <3>1 DEF View, At
  <2> QED
    BY <1>3, <2>2, <2>3 DEF ReadsLog, DoneLog
<1>4. CASE ReadsLaneAgain(p)
  <2>1. View(p) /\ At(p, "texts") /\ UNCHANGED file
    BY <1>4 DEF ReadsLaneAgain, ghosts, disk
  <2>2. CASE Quits(p)
    BY <1>2, <2>2
  <2>3. CASE /\ current_lane(file[cmd[p].wp]) = "done"
             /\ Runs(p, [name |-> "accept", at |-> "reading", todo |-> cmd[p].todo])
    <3>1. cmd'[p].at = "reading" /\ cmd'[p].todo = cmd[p].todo
      BY <2>3, RunsNow
    <3>2. Ready(file[cmd[p].wp])
      BY <2>1, <2>3 DEF View, At, DoneLog, Ready
    <3> QED
      BY <2>1, <3>1, <3>2 DEF View, At
  <2> QED
    BY <1>4, <2>2, <2>3 DEF ReadsLaneAgain
<1>5. CASE GitStatus(p)
  <2>1. CASE Quits(p)
    BY <1>2, <2>1
  <2>2. CASE CleanStatus /\ Goes(p, "checked") /\ UNCHANGED stale
    <3>1. View(p) /\ At(p, "reading") /\ cmd[p].todo = {} /\ cmd[p] \in Surveys
          /\ UNCHANGED <<file, index, head>>
      BY <1>5, <2>2, CommandAt DEF GitStatus, At, disk
    <3>2. cmd'[p].at = "checked"
      BY <2>2, <3>1, RunsNow DEF Goes, Surveys
    <3> QED
      BY <2>2, <3>1, <3>2 DEF View, At, CleanStatus
  <2> QED
    BY <1>5, <2>1, <2>2 DEF GitStatus
<1>6. CASE WriteMeta(p) \/ AddMeta(p)
  <2>1. /\ View(p) /\ cmd[p].at \in {"checked", "recorded"} /\ UNCHANGED <<file, index, head>>
        /\ Goes(p, "recorded") \/ Goes(p, "staged")
    BY <1>6 DEF WriteMeta, AddMeta, Outdates, At
  <2>2. cmd[p] \in Surveys
    BY <2>1, CommandAt
  <2>3. cmd'[p].at \in {"recorded", "staged"}
    BY <2>1, <2>2, RunsNow DEF Goes, Surveys
  <2> QED
    BY <2>1, <2>3 DEF View
<1>7. CASE CommitAcceptance(p)
  BY <1>2, <1>7 DEF CommitAcceptance
<1> QED
  BY <1>1, <1>3, <1>4, <1>5, <1>6, <1>7, <1>8 DEF accept_command, normalize_feature_encoding

LEMMA AcceptNext == AcceptInv /\ [Next]_vars => AcceptInv'
<1> SUFFICES ASSUME AcceptInv, [Next]_vars, NEW p \in Procs \ stale' PROVE View(p)'
  BY TypeNext DEF AcceptInv
<1> USE DEF disk, ghosts
<1>0. TypeInv /\ (p \notin stale => View(p))
  BY DEF AcceptInv
<1>1. ASSUME NEW q \in Procs,
             \/ update_command(q) \/ history_command(q) \/ rollback_command(q)
             \/ UpdateByRollback(q) \/ ReadsText(q)
      PROVE  View(p)'
  <2>1. UNCHANGED <<file, index, head, stale>>
    BY <1>1 DEF update_command, history_command, rollback_command, UpdateByRollback, ReadsText
  <2>2. Runs(q, cmd'[q]) /\ cmd'[q].at \in {"idle", "rolling", "locating", "loaded"}
    <3>1. ASSUME NEW name, NEW w, NEW asked, ReadsLane(q, name, w, asked) PROVE <2>2
      BY <1>0, <3>1, RunsNow DEF ReadsLane
    <3>2. Quits(q) => <2>2
      BY <1>0, RunsNow DEF Quits, Idle
    <3>3. CASE rollback_command(q)
      BY <1>0, <3>3, RunsNow DEF rollback_command
    <3>4. CASE ReadsText(q)
      <4>1. Quits(q) \/ Runs(q, [name |-> cmd[q].name, at |-> "loaded", wp |-> cmd[q].wp,
                         current |-> cmd[q].current,
                         lane |-> IF cmd[q].asked = "same" THEN cmd[q].current ELSE cmd[q].asked,
                         seen |-> file[cmd[q].wp]])
        BY <3>4 DEF ReadsText
      <4> QED
        BY <1>0, <3>2, <4>1, RunsNow
    <3> QED
      BY <1>1, <3>1, <3>3, <3>4 DEF update_command, history_command, UpdateByRollback
  <2>3. p # q => cmd'[p] = cmd[p]
    BY <1>0, <2>2 DEF Runs, TypeInv
  <2> QED
    BY <1>0, <2>1, <2>2, <2>3, NoView, ViewStays
<1>2. ASSUME NEW q \in Procs, stage_update(q) PROVE View(p)'
  <2>1. OpenForWriting(q) => cmd[q] \in Edits
    BY <1>0, CommandAt DEF OpenForWriting, At
  <2>2. \/ OpenForWriting(q) /\ Goes(q, "writing")
        \/ Runs(q, [name |-> cmd[q].name, at |-> "adding", wp |-> cmd[q].wp])
        \/ Quits(q)
    BY <1>2 DEF stage_update, OpenForWriting, Fill, AddFile
  <2>3. cmd'[q].at \in {"writing", "adding", "idle"}
    <3>1. Quits(q) => cmd'[q].at = "idle"
      BY <1>0, RunsNow DEF Quits, Idle
    <3>2. OpenForWriting(q) /\ Goes(q, "writing") => cmd'[q].at = "writing"
      BY <1>0, <2>1, GoesOn
    <3> QED
      BY <1>0, <2>2, <3>1, <3>2, RunsNow
  <2>4. p # q => cmd'[p] = cmd[p]
    BY <1>0, <2>2 DEF Goes, Quits, Runs, TypeInv
  <2>5. p # q => /\ p \notin stale
                 /\ p \notin Checked
                 /\ UNCHANGED file \/ p \notin Reading
    BY <1>2 DEF stage_update, OpenForWriting, Fill, AddFile, Outdates, OutdatesFiles
  <2> QED
    BY <1>0, <2>3, <2>4, <2>5, NoView, OtherView
<1>3. ASSUME NEW q \in Procs, accept_command(q) PROVE View(p)'
  <2>1. CASE q = p
    BY <1>0, <1>3, <2>1, AcceptView
  <2>2. CASE q # p
    <3>1. cmd'[p] = cmd[p]
      BY <1>0, <1>3, <2>2, AcceptRuns DEF Runs, TypeInv
    <3>2. CASE Empties(q) \/ Rewrites(q)
      <4>1. p \notin stale /\ p \notin Checked /\ p \notin Reading
        BY <2>2, <3>2 DEF Empties, Rewrites, OutdatesFiles
      <4> QED
        BY <1>0, <3>1, <4>1, OtherView
    <3>3. CASE StartsAccepting(q) \/ ReadsLog(q) \/ ReadsLaneAgain(q) \/ GitStatus(q)
               \/ WriteMeta(q) \/ AddMeta(q) \/ MeetsEncoding(q) \/ ReadsBytes(q)
               \/ ReadsAgain(q)
      <4>1. UNCHANGED <<file, index, head>> /\ p \notin stale
        BY <2>2, <3>3 DEF StartsAccepting, ReadsLog, ReadsLaneAgain, GitStatus, WriteMeta,
           AddMeta, MeetsEncoding, ReadsBytes, ReadsAgain, Outdates
      <4> QED
        BY <1>0, <3>1, <4>1, ViewStays
    <3>4. CASE CommitAcceptance(q)
      BY <1>0, <2>2, <3>1, <3>4, OtherView DEF CommitAcceptance
    <3> QED
      BY <1>3, <3>2, <3>3, <3>4 DEF accept_command, normalize_feature_encoding
  <2> QED
    BY <2>1, <2>2
<1>4. ASSUME NEW q \in Procs, Stops(q) PROVE View(p)'
  <2>1. UNCHANGED <<file, index, head>> /\ Quits(q) /\ (p # q => p \notin stale)
    BY <1>4 DEF Stops
  <2>2. cmd'[q] = Idle /\ (p # q => cmd'[p] = cmd[p])
    BY <1>0, <2>1 DEF Quits, Runs, TypeInv
  <2> QED
    BY <1>0, <2>1, <2>2, NoView, ViewStays DEF Idle
<1>5. CASE CommitAll
  BY <1>0, <1>5, OtherView DEF CommitAll
<1>6. CASE UNCHANGED vars
  BY <1>0, <1>6, ViewStays DEF vars
<1> QED
  BY <1>1, <1>2, <1>3, <1>4, <1>5, <1>6 DEF Next

(* An acceptance commits its metadata alone, on top of WPs that are all    *)
(* done, unless something changed after it had looked (acceptance_core.py: *)
(* collect_feature_summary, perform_acceptance).                           *)
THEOREM AcceptanceIsSound == Spec => AcceptsWhatItChecked
<1>1. Init => AcceptInv
  <2> SUFFICES ASSUME Init, NEW p \in Procs PROVE View(p)
    BY TypeInit DEF AcceptInv
  <2>1. cmd[p] = Idle
    BY DEF Init
  <2> QED
    BY <2>1 DEF Idle, View
<1>2. AcceptInv =>
        [\A p \in Procs :
           CommitAcceptance(p) /\ p \notin stale
           => index = head /\ \A w \in WPs : Ready(head[w])]_vars
  BY DEF AcceptInv, View, CommitAcceptance, At
<1> QED
  BY <1>1, <1>2, AcceptNext, PTL DEF Spec, AcceptsWhatItChecked
=============================================================================
