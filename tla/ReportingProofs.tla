--------------------------- MODULE ReportingProofs ---------------------------
(***************************************************************************)
(* The reporting service, proved for any schedules, editors, requests,     *)
(* templates and faults.  Three invariants: what a run says of its report  *)
(* row (ReportInv), what was promised for a finished one (AnnouncedInv),   *)
(* and what a reload under way will register (ReloadInv).                  *)
(***************************************************************************)
EXTENDS Reporting, SequenceTheorems, TLAPS

Busy(k) == run[k].at \in {"rendering", "handing", "stamping"}

Rendering(k) == run[k].at = "rendering"
Finished(k) == run[k].at \in {"handing", "stamping"}

ReportInv ==
    /\ \A k, q \in Runs : Busy(k) /\ Busy(q) /\ run[k].report = run[q].report => k = q
    /\ \A k \in Runs : Busy(k) => run[k].report \notin orphaned
    /\ \A k \in Runs : Rendering(k) => reports[run[k].report].status = "running"
    /\ \A k \in Runs : Finished(k) => reports[run[k].report].status = "done"
    /\ \A i \in orphaned : reports[i].status = "running"
    /\ \A i \in DOMAIN reports : reports[i].status = "running" =>
          i \in orphaned \/ \E k \in Runs : Rendering(k) /\ run[k].report = i

AnnouncedInv ==
    /\ \A k \in Runs : Busy(k) => reports[run[k].report].by = k
    /\ \A k \in Runs : run[k].at = "stamping" => run[k].report \in handed
    /\ \A s \in Schedules : run[s] # Quiet => schedule[s] # NeverMade
    /\ \A i \in DOMAIN reports, s \in Schedules :
          reports[i].by = s /\ reports[i].status = "done" =>
             \/ Finished(s) /\ run[s].report = i
             \/ i \in (handed \intersect announced) \union disturbed
             \/ schedule[s] = Deleted

(* A reload that is still to come, or at work.                             *)
ReloadPending == \E l \in DOMAIN edit : edit[l].at \in {"reloading", "registering"}

Live(s) == Exists(s) /\ schedule[s].enabled

ReloadInv ==
    \A s \in Schedules \ stale :
       Live(s) =>
          /\ \A l \in DOMAIN edit : edit[l].at = "registering" =>
                s \in DOMAIN edit[l].crons /\ edit[l].crons[s] = schedule[s].cron
          /\ schedule[s].cron # BadCron =>
                job[s] = [cron |-> schedule[s].cron] \/ ReloadPending

-----------------------------------------------------------------------------
LEMMA RowIsNeither == ASSUME NEW x \in Rows PROVE x \notin {NeverMade, Deleted}
BY DEF Rows, NeverMade, Deleted

LEMMA FlushedRow ==
  ASSUME NEW l \in Rows, NEW w \in Rows, NEW c \in Rows
  PROVE  Flush(l, w, c) \in Rows
<1>1. DOMAIN w = {"cron", "enabled", "template"}
  BY DEF Rows
<1>2. Flush(l, w, c) = [x \in {"cron", "enabled", "template"} |-> IF w[x] # l[x] THEN w[x] ELSE c[x]]
  BY <1>1 DEF Flush
<1>. QED
  BY <1>2 DEF Rows

(* What a request of the API and a run carry, by how far they got.         *)
LEMMA EditTypes ==
  ASSUME ReportingTypeOK, NEW e \in Editors \union {Start}
  PROVE  /\ DOMAIN edit = Editors \union {Start}
         /\ edit[e].at \in {"idle", "reloading", "loaded", "registering"}
         /\ edit[e].at = "idle" => edit[e] = Quiet
         /\ edit[e].at = "reloading" => edit[e] = Reloading
         /\ edit[e].at = "loaded" =>
              edit[e].schedule \in Schedules /\ edit[e].found \in Rows /\ edit[e].wanted \in Wanted
         /\ edit[e].at = "registering" =>
              \E S \in SUBSET Schedules : edit[e].crons \in [S -> Crons \union {BadCron}]
<1>1. edit[e] \in Edit /\ DOMAIN edit = Editors \union {Start}
  BY DEF ReportingTypeOK
<1>. QED
  BY <1>1 DEF Edit, Quiet, Reloading

LEMMA RunTypes ==
  ASSUME ReportingTypeOK, NEW k \in Runs
  PROVE  /\ run[k].at \in {"idle", "generating", "rendering", "handing", "stamping"}
         /\ run[k].at = "idle" => run[k] = Quiet
         /\ run[k].at = "generating" => run[k].template \in Templates \union {Unknown}
         /\ run[k].at = "rendering" => run[k].template \in Templates
         /\ Busy(k) => run[k].report \in DOMAIN reports /\ run[k].report \in 1..MaxReports
<1>1. run[k] \in Run
  BY DEF ReportingTypeOK
<1>2. Busy(k) => run[k].report \in DOMAIN reports
  BY DEF ReportingTypeOK, Busy
<1>. QED
  BY <1>1, <1>2 DEF Run, Quiet, Busy

-----------------------------------------------------------------------------
(* The schedules' side and the generations' side of the type invariant.    *)
ScheduleTypes ==
    /\ schedule \in [Schedules -> Rows \union {NeverMade, Deleted}]
    /\ job \in [Schedules -> [cron : Crons] \union {NoJob}]
    /\ edit \in [Editors \union {Start} -> Edit]
    /\ stale \subseteq Schedules

GenerationTypes ==
    /\ run \in [Runs -> Run]
    /\ reports \in Seq([status : {"running", "done", "failed"}, by : Runs])
    /\ Len(reports) <= MaxReports
    /\ \A k \in Runs : Busy(k) => run[k].report \in DOMAIN reports
    /\ (handed \union announced \union orphaned \union disturbed) \subseteq DOMAIN reports

LEMMA TypesSplit == ReportingTypeOK <=> ScheduleTypes /\ GenerationTypes
BY DEF ReportingTypeOK, ScheduleTypes, GenerationTypes, Busy

LEMMA CommitTypes ==
  ASSUME ScheduleTypes, NEW s \in Schedules, NEW row \in Rows, Commit(s, row)
  PROVE  /\ schedule' \in [Schedules -> Rows \union {NeverMade, Deleted}]
         /\ stale' \subseteq Schedules
BY DEF Commit, ScheduleTypes

LEMMA QuietEdits == Quiet \in Edit /\ Reloading \in Edit /\ Quiet \in Run
BY DEF Edit, Run

LEMMA ScheduleTypesNext ==
  ASSUME ReportingTypeOK, [ReportingNext]_reportVars
  PROVE  ScheduleTypes'
<1>. ScheduleTypes
  BY TypesSplit
<1>1. ASSUME NEW e \in Editors, NEW s \in Schedules, NEW row \in Wanted,
             CreateSchedule(e, s, row)
      PROVE  ScheduleTypes'
  <2>1. row \in Rows
    BY ReportingAssumption
  <2>. QED
    BY <1>1, <2>1, CommitTypes, QuietEdits DEF CreateSchedule, ScheduleTypes
<1>2. ASSUME NEW e \in Editors, NEW s \in Schedules, NEW row \in Wanted, UpdateLoads(e, s, row)
      PROVE  ScheduleTypes'
  <2>. DEFINE u == [at |-> "loaded", schedule |-> s, found |-> schedule[s], wanted |-> row]
  <2>1. schedule[s] \in Rows
    BY <1>2 DEF UpdateLoads, Exists, ScheduleTypes
  <2>2. u \in Edit
    BY <2>1 DEF Edit
  <2>3. edit' = [edit EXCEPT ![e] = u] /\ UNCHANGED schedule /\ UNCHANGED job /\ UNCHANGED stale
    BY <1>2 DEF UpdateLoads
  <2>. HIDE DEF u
  <2>. QED
    BY <2>2, <2>3 DEF ScheduleTypes
<1>3. ASSUME NEW e \in Editors, UpdateCommits(e) PROVE ScheduleTypes'
  <2>. DEFINE u == edit[e]
              row == Flush(u.found, u.wanted, schedule[u.schedule])
  <2>1. u.schedule \in Schedules /\ u.found \in Rows /\ u.wanted \in Rows
    BY <1>3, EditTypes, ReportingAssumption DEF UpdateCommits
  <2>2. CASE Exists(u.schedule)
    <3>1. schedule[u.schedule] \in Rows
      BY <2>1, <2>2 DEF Exists, ScheduleTypes
    <3>2. row \in Rows
      BY <2>1, <3>1, FlushedRow
    <3>3. Commit(u.schedule, row) /\ edit' = [edit EXCEPT ![e] = Reloading] /\ UNCHANGED job
      BY <1>3, <2>2 DEF UpdateCommits
    <3>. HIDE DEF u, row
    <3>. QED
      BY <2>1, <3>2, <3>3, CommitTypes, QuietEdits DEF ScheduleTypes
  <2>3. CASE ~Exists(u.schedule)
    BY <1>3, <2>3, QuietEdits DEF UpdateCommits, ScheduleTypes
  <2>. QED
    BY <2>2, <2>3
<1>4. ASSUME NEW s \in Schedules, DeleteSchedule(s) PROVE ScheduleTypes'
  BY <1>4 DEF DeleteSchedule, ScheduleTypes
<1>5. ASSUME NEW l \in DOMAIN edit, ReloadReads(l) PROVE ScheduleTypes'
  <2>. DEFINE u == [at |-> "registering", crons |-> EnabledCrons]
  <2>1. u \in Edit
    <3>. DEFINE S == {q \in Schedules : Exists(q) /\ schedule[q].enabled}
    <3>1. S \in SUBSET Schedules
      OBVIOUS
    <3>2. \A s \in S : schedule[s].cron \in Crons \union {BadCron}
      BY DEF Exists, ScheduleTypes, Rows
    <3>3. EnabledCrons \in [S -> Crons \union {BadCron}]
      BY <3>2 DEF EnabledCrons
    <3>. HIDE DEF S
    <3>. QED
      BY <3>1, <3>3 DEF Edit
  <2>2. edit' = [edit EXCEPT ![l] = u] /\ UNCHANGED schedule /\ UNCHANGED job /\ UNCHANGED stale
    BY <1>5 DEF ReloadReads
  <2>. HIDE DEF u
  <2>. QED
    BY <2>1, <2>2 DEF ScheduleTypes
<1>6. ASSUME NEW l \in DOMAIN edit, ReloadRegisters(l) PROVE ScheduleTypes'
  <2>. DEFINE crons == edit[l].crons
  <2>1. l \in Editors \union {Start} /\ edit[l].at = "registering"
    BY <1>6 DEF ReloadRegisters, ScheduleTypes
  <2>2. \A s \in DOMAIN crons : crons[s] \in Crons \union {BadCron}
    BY <2>1, EditTypes
  <2>3. job' = [s \in Schedules |-> IF s \in DOMAIN crons /\ crons[s] # BadCron
                                      THEN [cron |-> crons[s]] ELSE job[s]]
    BY <1>6 DEF ReloadRegisters
  <2>. HIDE DEF crons
  <2>4. job' \in [Schedules -> [cron : Crons] \union {NoJob}]
    BY <2>2, <2>3 DEF ScheduleTypes
  <2>. QED
    BY <1>6, <2>1, <2>4, QuietEdits DEF ReloadRegisters, ScheduleTypes
<1>7. ASSUME NEW l \in DOMAIN edit, ReloadFails(l) PROVE ScheduleTypes'
  BY <1>7, QuietEdits DEF ReloadFails, ScheduleTypes
<1>8. ASSUME UNCHANGED <<schedule, job, edit, stale>> PROVE ScheduleTypes'
  BY <1>8 DEF ScheduleTypes
<1>9. ASSUME NEW k \in Runs, Works(k) PROVE ScheduleTypes'
  BY <1>8, <1>9 DEF Works, InsertsReport, RejectsTemplate, RenderRaises, RowIsLost, HandsOver,
                    Rendered, Announces, fixed
<1>10. CASE Crash
  BY <1>10, QuietEdits DEF Crash, ScheduleTypes
<1>11. ASSUME NEW s \in Schedules, Fires(s) PROVE ScheduleTypes'
  BY <1>8, <1>11 DEF Fires, fixed
<1>12. ASSUME NEW q \in Requests, NEW t, AsksFor(q, t) PROVE ScheduleTypes'
  BY <1>8, <1>12 DEF AsksFor, fixed
<1>13. CASE UNCHANGED reportVars
  BY <1>8, <1>13 DEF reportVars
<1>. QED
  BY <1>1, <1>2, <1>3, <1>4, <1>5, <1>6, <1>7, <1>9, <1>10, <1>11, <1>12, <1>13
     DEF ReportingNext, Reloads

(* A step that leaves the rows' number alone and gives run k something of  *)
(* its own row, or nothing, to do.                                         *)
LEMMA GenerationKept ==
  ASSUME GenerationTypes, NEW k \in Runs, NEW g \in Run, run' = [run EXCEPT ![k] = g],
         g.at \in {"rendering", "handing", "stamping"} => g.report \in DOMAIN reports,
         reports' \in Seq([status : {"running", "done", "failed"}, by : Runs]),
         Len(reports') = Len(reports),
         (handed' \union announced' \union orphaned' \union disturbed') \subseteq DOMAIN reports
  PROVE  GenerationTypes'
<1>1. DOMAIN reports' = DOMAIN reports
  BY DEF GenerationTypes
<1>2. ASSUME NEW q \in Runs, Busy(q)' PROVE run'[q].report \in DOMAIN reports
  <2>1. CASE q = k
    BY <1>2, <2>1 DEF GenerationTypes, Busy
  <2>2. CASE q # k
    BY <1>2, <2>2 DEF GenerationTypes, Busy
  <2>. QED
    BY <2>1, <2>2
<1>. QED
  BY <1>1, <1>2 DEF GenerationTypes

LEMMA SetStatus ==
  ASSUME GenerationTypes, NEW i \in DOMAIN reports, NEW v \in {"running", "done", "failed"},
         reports' = [reports EXCEPT ![i].status = v]
  PROVE  /\ reports' \in Seq([status : {"running", "done", "failed"}, by : Runs])
         /\ Len(reports') = Len(reports) /\ DOMAIN reports' = DOMAIN reports
         /\ reports'[i] = [status |-> v, by |-> reports[i].by]
         /\ \A j \in DOMAIN reports : j # i => reports'[j] = reports[j]
         /\ \A j \in DOMAIN reports : reports'[j].by = reports[j].by
<1>. DEFINE E == [status : {"running", "done", "failed"}, by : Runs]
<1>0. reports \in Seq(E)
  BY DEF GenerationTypes
<1>. HIDE DEF E
<1>1. reports \in [1..Len(reports) -> E] /\ DOMAIN reports = 1..Len(reports) /\ Len(reports) \in Nat
  BY <1>0, LenProperties
<1>. USE DEF E
<1>2. \A j \in 1..Len(reports) : reports'[j] = IF j = i THEN [reports[i] EXCEPT !.status = v] ELSE reports[j]
  BY <1>1
<1>3. reports[i] \in E
  BY <1>1
<1>4. [reports[i] EXCEPT !.status = v] = [status |-> v, by |-> reports[i].by]
  BY <1>3
<1>5. [status |-> v, by |-> reports[i].by] \in E
  BY <1>3
<1>6. reports' \in [1..Len(reports) -> E]
  BY <1>1, <1>2, <1>4, <1>5
<1>7. DOMAIN reports' = DOMAIN reports
  BY <1>1
<1>8. reports' \in Seq(E)
  <2>. HIDE DEF E
  <2>. QED
    BY <1>1, <1>6
<1>9. Len(reports') = Len(reports)
  BY <1>1, <1>7, <1>8
<1>. QED
  BY <1>1, <1>2, <1>4, <1>7, <1>8, <1>9

LEMMA AppendRow ==
  ASSUME GenerationTypes, NEW k \in Runs, Len(reports) < MaxReports,
         reports' = Append(reports, [status |-> "running", by |-> k])
  PROVE  /\ reports' \in Seq([status : {"running", "done", "failed"}, by : Runs])
         /\ Len(reports') = Len(reports) + 1 /\ Len(reports') <= MaxReports
         /\ Len(reports) + 1 \in 1..MaxReports /\ Len(reports) + 1 \notin DOMAIN reports
         /\ DOMAIN reports' = DOMAIN reports \union {Len(reports) + 1}
         /\ reports'[Len(reports) + 1] = [status |-> "running", by |-> k]
         /\ \A i \in DOMAIN reports : reports'[i] = reports[i]
<1>. DEFINE E == [status : {"running", "done", "failed"}, by : Runs]
            e == [status |-> "running", by |-> k]
<1>1. reports \in Seq(E) /\ e \in E
  BY DEF GenerationTypes
<1>2. MaxReports \in Nat
  BY ReportingAssumption
<1>. HIDE DEF E, e
<1>3. reports' = Append(reports, e)
  BY DEF e
<1>4. /\ Len(reports) \in Nat /\ DOMAIN reports = 1..Len(reports)
      /\ reports' \in Seq(E) /\ Len(reports') = Len(reports) + 1
      /\ DOMAIN reports' = 1..Len(reports')
      /\ reports'[Len(reports) + 1] = e
      /\ \A i \in 1..Len(reports) : reports'[i] = reports[i]
  BY <1>1, <1>3, LenProperties
<1>. QED
  BY <1>2, <1>4 DEF E, e

LEMMA GenerationTypesNext ==
  ASSUME ReportingTypeOK, [ReportingNext]_reportVars
  PROVE  GenerationTypes'
<1>. GenerationTypes
  BY TypesSplit
<1>1. ASSUME UNCHANGED generation PROVE GenerationTypes'
  BY <1>1 DEF generation, GenerationTypes, Busy
<1>2. ASSUME NEW k \in Runs, NEW template \in Templates \union {Unknown}, Begins(k, template),
             UNCHANGED <<reports, handed, announced, orphaned, disturbed>>
      PROVE  GenerationTypes'
  <2>. DEFINE g == [at |-> "generating", template |-> template]
  <2>1. g \in Run /\ g.at = "generating"
    BY DEF Run
  <2>2. run' = [run EXCEPT ![k] = g]
    BY <1>2 DEF Begins
  <2>. HIDE DEF g
  <2>. QED
    BY <1>2, <2>1, <2>2, GenerationKept DEF GenerationTypes
<1>3. ASSUME NEW k \in Runs, Ends(k), UNCHANGED <<reports, handed>>,
             (announced' \union orphaned' \union disturbed') \subseteq DOMAIN reports
      PROVE  GenerationTypes'
  <2>1. Quiet \in Run /\ Quiet.at = "idle"
    BY QuietEdits DEF Quiet
  <2>. QED
    BY <1>3, <2>1, GenerationKept DEF Ends, GenerationTypes
<1>4. ASSUME NEW k \in Runs, InsertsReport(k) PROVE GenerationTypes'
  <2>. DEFINE n == Len(reports) + 1
              g == [at |-> "rendering", template |-> run[k].template, report |-> n]
  <2>1. run[k].template \in Templates
    BY <1>4, RunTypes DEF InsertsReport
  <2>2. /\ reports' = Append(reports, [status |-> "running", by |-> k])
        /\ Len(reports) < MaxReports
        /\ run' = [run EXCEPT ![k] = g]
        /\ UNCHANGED <<handed, announced, orphaned, disturbed>>
    BY <1>4 DEF InsertsReport, GenerationTypes
  <2>3. /\ reports' \in Seq([status : {"running", "done", "failed"}, by : Runs])
        /\ Len(reports') <= MaxReports /\ n \in 1..MaxReports
        /\ DOMAIN reports' = DOMAIN reports \union {n}
    BY <2>2, AppendRow
  <2>4. g \in Run /\ g.report = n
    BY <2>1, <2>3 DEF Run
  <2>. HIDE DEF n, g
  <2>5. ASSUME NEW q \in Runs, Busy(q)' PROVE run'[q].report \in DOMAIN reports'
    <3>1. CASE q = k
      BY <2>2, <2>3, <2>4, <3>1 DEF GenerationTypes
    <3>2. CASE q # k
      BY <2>2, <2>3, <2>5, <3>2 DEF GenerationTypes, Busy
    <3>. QED
      BY <3>1, <3>2
  <2>. QED
    BY <2>2, <2>3, <2>4, <2>5 DEF GenerationTypes
<1>5. ASSUME NEW k \in Runs, RejectsTemplate(k) PROVE GenerationTypes'
  BY <1>3, <1>5 DEF RejectsTemplate, GenerationTypes
<1>6. ASSUME NEW k \in Runs, NEW deliver \in BOOLEAN, Rendered(k, deliver) PROVE GenerationTypes'
  <2>. DEFINE g == IF deliver THEN [at |-> "handing", report |-> run[k].report] ELSE Quiet
  <2>1. run[k].report \in DOMAIN reports /\ run[k].report \in 1..MaxReports
    BY <1>6, RunTypes DEF Rendered, Busy
  <2>2. /\ run' = [run EXCEPT ![k] = g]
        /\ reports' = [reports EXCEPT ![run[k].report].status = "done"]
        /\ UNCHANGED <<handed, announced, orphaned, disturbed>>
    BY <1>6 DEF Rendered, Ends
  <2>3. g \in Run /\ (g.at = "idle" \/ g.report \in DOMAIN reports)
    BY <2>1, QuietEdits DEF Run, Quiet
  <2>. HIDE DEF g
  <2>4. /\ reports' \in Seq([status : {"running", "done", "failed"}, by : Runs])
        /\ Len(reports') = Len(reports)
    BY <2>1, <2>2, SetStatus
  <2>. QED
    BY <2>2, <2>3, <2>4, GenerationKept DEF GenerationTypes
<1>7. ASSUME NEW k \in Runs, RenderRaises(k) PROVE GenerationTypes'
  <2>1. run[k].report \in DOMAIN reports
    BY <1>7, RunTypes DEF RenderRaises, Busy
  <2>2. reports' = [reports EXCEPT ![run[k].report].status = "failed"]
    BY <1>7 DEF RenderRaises
  <2>3. /\ reports' \in Seq([status : {"running", "done", "failed"}, by : Runs])
        /\ Len(reports') = Len(reports)
    BY <2>1, <2>2, SetStatus
  <2>4. Quiet \in Run /\ Quiet.at = "idle"
    BY QuietEdits DEF Quiet
  <2>. QED
    BY <1>7, <2>3, <2>4, GenerationKept DEF RenderRaises, Ends, GenerationTypes
<1>8. ASSUME NEW k \in Runs, RowIsLost(k) PROVE GenerationTypes'
  <2>1. run[k].report \in DOMAIN reports
    BY <1>8, RunTypes DEF RowIsLost, Busy
  <2>. QED
    BY <1>3, <1>8, <2>1 DEF RowIsLost, GenerationTypes
<1>9. ASSUME NEW k \in Runs, HandsOver(k) PROVE GenerationTypes'
  <2>. DEFINE g == IF k \in Schedules THEN [at |-> "stamping", report |-> run[k].report] ELSE Quiet
  <2>1. run[k].report \in DOMAIN reports /\ run[k].report \in 1..MaxReports
    BY <1>9, RunTypes DEF HandsOver, Busy
  <2>2. /\ run' = [run EXCEPT ![k] = g]
        /\ handed' = handed \union {run[k].report}
        /\ UNCHANGED <<reports, announced, orphaned, disturbed>>
    BY <1>9 DEF HandsOver, Ends
  <2>3. g \in Run /\ (g.at = "idle" \/ g.report \in DOMAIN reports)
    BY <2>1, QuietEdits DEF Run, Quiet
  <2>. HIDE DEF g
  <2>. QED
    BY <2>1, <2>2, <2>3, GenerationKept DEF GenerationTypes
<1>10. ASSUME NEW k \in Runs, NEW works \in BOOLEAN, Announces(k, works) PROVE GenerationTypes'
  <2>1. run[k].report \in DOMAIN reports
    BY <1>10, RunTypes DEF Announces, Busy
  <2>2. (announced' \union orphaned' \union disturbed') \subseteq DOMAIN reports
    BY <1>10, <2>1 DEF Announces, GenerationTypes
  <2>. QED
    BY <1>3, <1>10, <2>2 DEF Announces
<1>11. CASE Crash
  <2>1. \A k \in Runs : run'[k] = Quiet
    BY <1>11 DEF Crash
  <2>2. (orphaned' \union disturbed') \subseteq DOMAIN reports
    <3>1. \A k \in Runs : Busy(k) => run[k].report \in DOMAIN reports
      BY DEF GenerationTypes
    <3>. QED
      BY <1>11, <3>1 DEF Crash, GenerationTypes, Busy
  <2>. QED
    BY <1>11, <2>1, <2>2, QuietEdits DEF Crash, GenerationTypes, Busy, Quiet
<1>12. ASSUME NEW s \in Schedules, Fires(s) PROVE GenerationTypes'
  <2>1. s \in Runs /\ schedule[s].template \in Templates \union {Unknown}
    BY <1>12 DEF Fires, Exists, Runs, ReportingTypeOK, Rows
  <2>. QED
    BY <1>2, <1>12, <2>1 DEF Fires
<1>13. ASSUME NEW q \in Requests, NEW t \in Templates \union {Unknown}, AsksFor(q, t)
       PROVE  GenerationTypes'
  BY <1>2, <1>13 DEF AsksFor, Runs
<1>14. ASSUME NEW k \in Runs, Works(k) PROVE GenerationTypes'
  BY <1>4, <1>5, <1>6, <1>7, <1>8, <1>9, <1>10, <1>14 DEF Works
<1>15. CASE UNCHANGED reportVars
  BY <1>1, <1>15 DEF reportVars, generation
<1>16. ASSUME NEW e \in Editors, NEW s \in Schedules, NEW row \in Wanted,
              CreateSchedule(e, s, row) \/ UpdateLoads(e, s, row) \/ UpdateCommits(e)
       PROVE  GenerationTypes'
  BY <1>1, <1>16 DEF CreateSchedule, UpdateLoads, UpdateCommits
<1>17. ASSUME NEW e \in Editors, UpdateCommits(e) PROVE GenerationTypes'
  BY <1>1, <1>17 DEF UpdateCommits
<1>18. ASSUME NEW l \in DOMAIN edit, Reloads(l) PROVE GenerationTypes'
  BY <1>1, <1>18 DEF Reloads, ReloadReads, ReloadRegisters, ReloadFails
<1>19. ASSUME NEW s \in Schedules, DeleteSchedule(s) PROVE GenerationTypes'
  BY <1>1, <1>19 DEF DeleteSchedule
<1>. QED
  BY <1>11, <1>12, <1>13, <1>14, <1>15, <1>16, <1>17, <1>18, <1>19 DEF ReportingNext

LEMMA InitTypes == ReportingInit => ReportingTypeOK
<1>. SUFFICES ASSUME ReportingInit PROVE ReportingTypeOK
  OBVIOUS
<1>1. ScheduleTypes
  BY QuietEdits DEF ReportingInit, ScheduleTypes
<1>2. GenerationTypes
  BY QuietEdits, ReportingAssumption DEF ReportingInit, GenerationTypes, Busy, Quiet
<1>. QED
  BY <1>1, <1>2, TypesSplit

(* The service's state keeps its shape, for any schedules, requests,       *)
(* templates and faults; a run always works on a row that was inserted.    *)
THEOREM ReportingTypeCorrect == ReportingSpec => []ReportingTypeOK
<1>1. ReportingTypeOK /\ [ReportingNext]_reportVars => ReportingTypeOK'
  <2>. SUFFICES ASSUME ReportingTypeOK, [ReportingNext]_reportVars PROVE ReportingTypeOK'
    OBVIOUS
  <2>1. ReportingTypeOK' <=> ScheduleTypes' /\ GenerationTypes'
    BY DEF ReportingTypeOK, ScheduleTypes, GenerationTypes, Busy
  <2>. QED
    BY <2>1, ScheduleTypesNext, GenerationTypesNext
<1>. QED
  BY <1>1, InitTypes, PTL DEF ReportingSpec

-----------------------------------------------------------------------------
(* Run k goes on: no other run changes, what it holds, if it holds a row   *)
(* at all, is the row it held before, and no other row changes.            *)
Own(k) == IF Busy(k) THEN {run[k].report} ELSE {}

GoesOn(k) ==
    /\ \A q \in Runs \ {k} : run'[q] = run[q]
    /\ Busy(k)' => Busy(k) /\ run'[k].report = run[k].report
    /\ DOMAIN reports' = DOMAIN reports
    /\ \A i \in DOMAIN reports \ Own(k) : reports'[i].status = reports[i].status
    /\ orphaned \subseteq orphaned' /\ orphaned' \subseteq orphaned \union Own(k)
    /\ \A i \in Own(k) :
          IF i \in orphaned' THEN ~Busy(k)' /\ reports'[i].status = "running"
                             ELSE /\ Rendering(k)' <=> reports'[i].status = "running"
                                  /\ Finished(k)' => reports'[i].status = "done"

LEMMA StepOfRun ==
  ASSUME ReportingTypeOK, ReportInv, NEW k \in Runs, GoesOn(k)
  PROVE  ReportInv'
<1>1. \A q \in Runs : /\ (Busy(q) <=> Rendering(q) \/ Finished(q))
                      /\ (Busy(q)' <=> Rendering(q)' \/ Finished(q)')
  BY DEF Busy, Rendering, Finished
<1>2. \A q \in Runs \ {k} : /\ run'[q] = run[q] /\ (Busy(q)' <=> Busy(q))
                            /\ (Rendering(q)' <=> Rendering(q)) /\ (Finished(q)' <=> Finished(q))
  BY DEF GoesOn, Busy, Rendering, Finished
<1>3. \A q \in Runs : Busy(q) => run[q].report \in DOMAIN reports
  BY RunTypes
<1>4. \A q \in Runs : Busy(q)' => Busy(q) /\ run'[q].report = run[q].report
  BY <1>2 DEF GoesOn
<1>5. \A q \in Runs \ {k} : Busy(q) => run[q].report \notin Own(k)
  BY DEF ReportInv, Own
<1>6. \A q \in Runs \ {k} : Busy(q) => reports'[run[q].report].status = reports[run[q].report].status
  BY <1>3, <1>5 DEF GoesOn
<1>7. \A q \in Runs : Busy(q)' => run'[q].report \notin orphaned'
  <2>1. ASSUME NEW q \in Runs, Busy(q)' PROVE run'[q].report \notin orphaned'
    <3>1. CASE q = k
      BY <1>4, <2>1, <3>1 DEF GoesOn, Own
    <3>2. CASE q # k
      BY <1>4, <1>5, <2>1, <3>2 DEF GoesOn, ReportInv
    <3>. QED
      BY <3>1, <3>2
  <2>. QED
    BY <2>1
<1>8. \A q \in Runs : /\ Rendering(q)' => reports'[run'[q].report].status = "running"
                      /\ Finished(q)' => reports'[run'[q].report].status = "done"
  <2>1. ASSUME NEW q \in Runs
        PROVE  /\ Rendering(q)' => reports'[run'[q].report].status = "running"
               /\ Finished(q)' => reports'[run'[q].report].status = "done"
    <3>1. CASE q = k
      <4>1. Busy(k)' => run'[k].report \in Own(k) /\ run'[k].report \notin orphaned'
        BY <1>4, <1>7 DEF Own
      <4>. QED
        BY <1>1, <3>1, <4>1 DEF GoesOn
    <3>2. CASE q # k
      BY <1>1, <1>2, <1>6, <3>2 DEF ReportInv
    <3>. QED
      BY <3>1, <3>2
  <2>. QED
    BY <2>1
<1>9. \A i \in orphaned' : reports'[i].status = "running"
  <2>1. \A i \in orphaned : i \in DOMAIN reports /\ i \notin Own(k)
    BY DEF ReportInv, Own, ReportingTypeOK
  <2>. QED
    BY <2>1 DEF GoesOn, ReportInv
<1>10. ASSUME NEW i \in DOMAIN reports, reports'[i].status = "running", i \notin orphaned'
       PROVE  \E q \in Runs : Rendering(q)' /\ run'[q].report = i
  <2>1. CASE i \in Own(k)
    <3>1. Rendering(k)' /\ run[k].report = i
      BY <1>10, <2>1 DEF GoesOn, Own
    <3>. QED
      BY <1>1, <1>4, <3>1
  <2>2. CASE i \notin Own(k)
    <3>1. reports[i].status = "running" /\ i \notin orphaned
      BY <1>10, <2>2 DEF GoesOn
    <3>2. PICK q \in Runs : Rendering(q) /\ run[q].report = i
      BY <3>1 DEF ReportInv
    <3>3. q # k
      BY <1>1, <2>2, <3>2 DEF Own
    <3>. QED
      BY <1>2, <3>2, <3>3
  <2>. QED
    BY <2>1, <2>2
<1>11. \A p, q \in Runs : Busy(p)' /\ Busy(q)' /\ run'[p].report = run'[q].report => p = q
  BY <1>4 DEF ReportInv
<1>12. DOMAIN reports' = DOMAIN reports
  BY DEF GoesOn
<1>. QED
  BY <1>7, <1>8, <1>9, <1>10, <1>11, <1>12 DEF ReportInv

LEMMA InsertKeepsReportInv ==
  ASSUME ReportingTypeOK, ReportInv, NEW k \in Runs, InsertsReport(k)
  PROVE  ReportInv'
<1>. DEFINE n == Len(reports) + 1
<1>1. /\ \A q \in Runs \ {k} : run'[q] = run[q]
      /\ run'[k].at = "rendering" /\ run'[k].report = n
      /\ ~Busy(k) /\ orphaned' = orphaned
      /\ Len(reports) < MaxReports
      /\ reports' = Append(reports, [status |-> "running", by |-> k])
  BY DEF InsertsReport, ReportingTypeOK, Busy
<1>2. /\ n \notin DOMAIN reports /\ DOMAIN reports' = DOMAIN reports \union {n}
      /\ reports'[n].status = "running"
      /\ \A i \in DOMAIN reports : reports'[i] = reports[i]
  <2>1. GenerationTypes
    BY TypesSplit
  <2>. QED
    BY <1>1, <2>1, AppendRow
<1>. HIDE DEF n
<1>3. \A q \in Runs \ {k} : /\ Busy(q) => run[q].report \in DOMAIN reports
                            /\ (Busy(q)' <=> Busy(q)) /\ (Rendering(q)' <=> Rendering(q))
                            /\ (Finished(q)' <=> Finished(q)) /\ run'[q].report = run[q].report
                            /\ Rendering(q) => Busy(q)
                            /\ Finished(q) => Busy(q)
  BY <1>1, RunTypes DEF Busy, Rendering, Finished
<1>4. Rendering(k)' /\ ~Finished(k)' /\ run'[k].report = n /\ ~Rendering(k)
  BY <1>1 DEF Rendering, Finished, Busy
<1>5. orphaned' = orphaned /\ orphaned \subseteq DOMAIN reports
  BY <1>1 DEF ReportingTypeOK
<1>6. \A p, q \in Runs : Busy(p)' /\ Busy(q)' /\ run'[p].report = run'[q].report => p = q
  BY <1>2, <1>3, <1>4 DEF ReportInv
<1>7. \A q \in Runs : Busy(q)' => run'[q].report \notin orphaned'
  BY <1>2, <1>3, <1>4, <1>5 DEF ReportInv
<1>8. \A q \in Runs : /\ Rendering(q)' => reports'[run'[q].report].status = "running"
                      /\ Finished(q)' => reports'[run'[q].report].status = "done"
  BY <1>2, <1>3, <1>4 DEF ReportInv
<1>9. \A i \in orphaned' : reports'[i].status = "running"
  BY <1>2, <1>5 DEF ReportInv
<1>10. ASSUME NEW i \in DOMAIN reports', reports'[i].status = "running", i \notin orphaned'
       PROVE  \E q \in Runs : Rendering(q)' /\ run'[q].report = i
  <2>1. CASE i = n
    BY <1>4, <2>1
  <2>2. CASE i # n
    <3>1. i \in DOMAIN reports /\ reports[i].status = "running" /\ i \notin orphaned
      BY <1>2, <1>5, <1>10, <2>2
    <3>2. PICK q \in Runs : Rendering(q) /\ run[q].report = i
      BY <3>1 DEF ReportInv
    <3>. QED
      BY <1>3, <1>4, <3>2
  <2>. QED
    BY <2>1, <2>2
<1>. QED
  BY <1>6, <1>7, <1>8, <1>9, <1>10 DEF ReportInv

LEMMA StatusSet ==
  ASSUME ReportingTypeOK, NEW k \in Runs, Busy(k), NEW v \in {"done", "failed"},
         reports' = [reports EXCEPT ![run[k].report].status = v]
  PROVE  /\ DOMAIN reports' = DOMAIN reports
         /\ reports'[run[k].report].status = v
         /\ \A j \in DOMAIN reports : j # run[k].report => reports'[j] = reports[j]
         /\ \A j \in DOMAIN reports : reports'[j].by = reports[j].by
<1>1. run[k].report \in DOMAIN reports
  BY RunTypes
<1>2. GenerationTypes
  BY TypesSplit
<1>. DEFINE i == run[k].report
<1>. HIDE DEF i
<1>3. i \in DOMAIN reports /\ reports' = [reports EXCEPT ![i].status = v]
  BY <1>1 DEF i
<1>4. /\ DOMAIN reports' = DOMAIN reports
      /\ reports'[i] = [status |-> v, by |-> reports[i].by]
      /\ \A j \in DOMAIN reports : j # i => reports'[j] = reports[j]
      /\ \A j \in DOMAIN reports : reports'[j].by = reports[j].by
  BY <1>2, <1>3, SetStatus, ZenonT(30)
<1>. QED
  BY <1>1, <1>4 DEF i

(* The steps of a run that already has its row, or gets none.              *)
LEMMA WorkGoesOn ==
  ASSUME ReportingTypeOK, ReportInv, NEW k \in Runs,
         Works(k) \/ (k \in Schedules /\ Fires(k)) \/ (\E t \in Templates \union {Unknown} : AsksFor(k, t)),
         ~InsertsReport(k)
  PROVE  GoesOn(k)
<1>. /\ run \in [Runs -> Run] /\ GenerationTypes
     /\ Busy(k) => run[k].report \in DOMAIN reports /\ run[k].report \notin orphaned
     /\ Rendering(k) => reports[run[k].report].status = "running"
     /\ Finished(k) => reports[run[k].report].status = "done"
  BY RunTypes, TypesSplit DEF ReportingTypeOK, ReportInv
<1>1. ASSUME NEW t, Begins(k, t), run[k].at \in {"idle", "generating"}, UNCHANGED <<reports, orphaned>>
      PROVE  GoesOn(k)
  BY <1>1 DEF Begins, GoesOn, Busy, Own
<1>2. ASSUME Ends(k), run[k].at # "rendering", UNCHANGED <<reports, orphaned>>
      PROVE  GoesOn(k)
  <2>1. run'[k].at = "idle" /\ \A q \in Runs \ {k} : run'[q] = run[q]
    BY <1>2 DEF Ends, Quiet
  <2>. QED
    BY <1>2, <2>1 DEF GoesOn, Busy, Own, Rendering, Finished
<1>3. CASE RejectsTemplate(k)
  BY <1>2, <1>3 DEF RejectsTemplate
<1>4. ASSUME NEW deliver \in BOOLEAN, Rendered(k, deliver) PROVE GoesOn(k)
  <2>. DEFINE i == run[k].report
  <2>1. /\ Rendering(k) /\ Busy(k)
        /\ reports' = [reports EXCEPT ![i].status = "done"] /\ orphaned' = orphaned
        /\ \A q \in Runs \ {k} : run'[q] = run[q]
        /\ run'[k].at = "idle" \/ (run'[k].at = "handing" /\ run'[k].report = i)
    BY <1>4 DEF Rendered, Ends, Quiet, Rendering, Busy
  <2>2. i \in DOMAIN reports /\ Own(k) = {i} /\ i \notin orphaned
    BY <2>1 DEF Own
  <2>. HIDE DEF i
  <2>3. /\ DOMAIN reports' = DOMAIN reports /\ reports'[i].status = "done"
        /\ \A j \in DOMAIN reports : j # i => reports'[j] = reports[j]
    BY <2>1, <2>2, StatusSet DEF i
  <2>. QED
    BY <2>1, <2>2, <2>3 DEF GoesOn, Busy, Rendering, Finished, i
<1>5. CASE RenderRaises(k)
  <2>. DEFINE i == run[k].report
  <2>1. /\ Rendering(k) /\ Busy(k)
        /\ reports' = [reports EXCEPT ![i].status = "failed"] /\ orphaned' = orphaned
        /\ \A q \in Runs \ {k} : run'[q] = run[q]
        /\ run'[k].at = "idle"
    BY <1>5 DEF RenderRaises, Ends, Quiet, Rendering, Busy
  <2>2. i \in DOMAIN reports /\ Own(k) = {i} /\ i \notin orphaned
    BY <2>1 DEF Own
  <2>. HIDE DEF i
  <2>3. /\ DOMAIN reports' = DOMAIN reports /\ reports'[i].status = "failed"
        /\ \A j \in DOMAIN reports : j # i => reports'[j] = reports[j]
    BY <2>1, <2>2, StatusSet DEF i
  <2>. QED
    BY <2>1, <2>2, <2>3 DEF GoesOn, Busy, Rendering, Finished
<1>6. CASE RowIsLost(k)
  <2>1. /\ Rendering(k) /\ Busy(k) /\ reports' = reports
        /\ orphaned' = orphaned \union {run[k].report}
        /\ \A q \in Runs \ {k} : run'[q] = run[q]
        /\ run'[k].at = "idle"
    BY <1>6 DEF RowIsLost, Ends, Quiet, Rendering, Busy
  <2>. QED
    BY <2>1 DEF GoesOn, Busy, Own, Rendering, Finished
<1>7. CASE HandsOver(k)
  <2>1. /\ Finished(k) /\ Busy(k) /\ UNCHANGED <<reports, orphaned>>
        /\ \A q \in Runs \ {k} : run'[q] = run[q]
        /\ run'[k].at = "idle" \/ (run'[k].at = "stamping" /\ run'[k].report = run[k].report)
    BY <1>7 DEF HandsOver, Ends, Quiet, Finished, Busy
  <2>. QED
    BY <2>1 DEF GoesOn, Busy, Own, Rendering, Finished
<1>8. ASSUME NEW works \in BOOLEAN, Announces(k, works) PROVE GoesOn(k)
  BY <1>2, <1>8 DEF Announces
<1>9. ASSUME k \in Schedules, Fires(k) PROVE GoesOn(k)
  BY <1>1, <1>9 DEF Fires, Quiet
<1>10. ASSUME NEW t \in Templates \union {Unknown}, AsksFor(k, t) PROVE GoesOn(k)
  BY <1>1, <1>10 DEF AsksFor, Quiet
<1>. QED
  BY <1>3, <1>4, <1>5, <1>6, <1>7, <1>8, <1>9, <1>10 DEF Works

LEMMA CrashKeepsReportInv ==
  ASSUME ReportingTypeOK, ReportInv, Crash
  PROVE  ReportInv'
<1>1. /\ \A k \in Runs : ~Busy(k)' /\ ~Rendering(k)' /\ ~Finished(k)'
      /\ reports' = reports
      /\ orphaned' = orphaned \union {run[k].report : k \in {q \in Runs : Rendering(q)}}
  BY DEF Crash, Quiet, Busy, Rendering, Finished
<1>. QED
  BY <1>1 DEF ReportInv

LEMMA ReportInvNext ==
  ASSUME ReportingTypeOK, ReportInv, [ReportingNext]_reportVars
  PROVE  ReportInv'
<1>1. ASSUME UNCHANGED generation PROVE ReportInv'
  BY <1>1 DEF generation, ReportInv, Busy, Rendering, Finished
<1>2. ASSUME NEW k \in Runs, Works(k) PROVE ReportInv'
  BY <1>2, InsertKeepsReportInv, WorkGoesOn, StepOfRun
<1>3. ASSUME NEW s \in Schedules, Fires(s) PROVE ReportInv'
  <2>1. s \in Runs /\ ~InsertsReport(s)
    BY <1>3 DEF Runs, Fires, InsertsReport, Quiet
  <2>. QED
    BY <1>3, <2>1, WorkGoesOn, StepOfRun
<1>4. ASSUME NEW q \in Requests, NEW t \in Templates \union {Unknown}, AsksFor(q, t) PROVE ReportInv'
  <2>1. q \in Runs /\ ~InsertsReport(q)
    BY <1>4 DEF Runs, AsksFor, InsertsReport, Quiet
  <2>. QED
    BY <1>4, <2>1, WorkGoesOn, StepOfRun
<1>5. CASE Crash
  BY <1>5, CrashKeepsReportInv
<1>6. ASSUME NEW e \in Editors, NEW s \in Schedules, NEW row \in Wanted,
             CreateSchedule(e, s, row) \/ UpdateLoads(e, s, row)
      PROVE  ReportInv'
  BY <1>1, <1>6 DEF CreateSchedule, UpdateLoads
<1>7. ASSUME NEW e \in Editors, UpdateCommits(e) PROVE ReportInv'
  BY <1>1, <1>7 DEF UpdateCommits
<1>8. ASSUME NEW l \in DOMAIN edit, Reloads(l) PROVE ReportInv'
  BY <1>1, <1>8 DEF Reloads, ReloadReads, ReloadRegisters, ReloadFails
<1>9. ASSUME NEW s \in Schedules, DeleteSchedule(s) PROVE ReportInv'
  BY <1>1, <1>9 DEF DeleteSchedule
<1>10. CASE UNCHANGED reportVars
  BY <1>1, <1>10 DEF reportVars, generation
<1>. QED
  BY <1>2, <1>3, <1>4, <1>5, <1>6, <1>7, <1>8, <1>9, <1>10 DEF ReportingNext

LEMMA InitReportInv == ReportingInit => ReportInv
BY DEF ReportingInit, ReportInv, Busy, Rendering, Finished, Quiet

(* A report row reads RUNNING exactly while its run is at work, or after a *)
(* crash or the database cut the run short.                                *)
THEOREM ReportingRunningIsRendering == ReportingSpec => []RunningIsRendering
<1>1. ReportingTypeOK /\ ReportInv /\ [ReportingNext]_reportVars => ReportInv'
  BY ReportInvNext
<1>2. ReportingTypeOK /\ ReportInv => RunningIsRendering
  <2>. SUFFICES ASSUME ReportingTypeOK, ReportInv PROVE RunningIsRendering
    OBVIOUS
  <2>1. orphaned \subseteq DOMAIN reports /\ \A k \in Runs : Rendering(k) => run[k].report \in DOMAIN reports
    BY DEF ReportingTypeOK, Rendering
  <2>. QED
    BY <2>1 DEF ReportInv, RunningIsRendering, Rendering
<1>. QED
  BY <1>1, <1>2, InitReportInv, ReportingTypeCorrect, PTL DEF ReportingSpec

-----------------------------------------------------------------------------
(* What run k hands over and announces, the rows of the schedules and the  *)
(* rest of the histories left alone.                                       *)
Accounts(k) ==
    /\ handed \subseteq handed' /\ announced \subseteq announced' /\ disturbed \subseteq disturbed'
    /\ schedule' = schedule
    /\ \A i \in DOMAIN reports : reports'[i].by = reports[i].by
    /\ run'[k].at = "stamping" => run'[k].report \in handed'
    /\ k \in Schedules /\ run'[k] # Quiet => schedule[k] # NeverMade
    /\ k \in Schedules =>
          \A i \in Own(k) : reports'[i].status = "done" /\ ~Finished(k)' =>
             i \in (handed' \intersect announced') \union disturbed' \/ schedule[k] = Deleted

LEMMA StepIsAccounted ==
  ASSUME ReportingTypeOK, ReportInv, AnnouncedInv, NEW k \in Runs, GoesOn(k), Accounts(k)
  PROVE  AnnouncedInv'
<1>1. \A q \in Runs \ {k} : /\ run'[q] = run[q] /\ (Busy(q)' <=> Busy(q)) /\ (Finished(q)' <=> Finished(q))
  BY DEF GoesOn, Busy, Finished
<1>2. \A q \in Runs : Busy(q)' => Busy(q) /\ run'[q].report = run[q].report
  BY <1>1 DEF GoesOn
<1>3. \A q \in Runs : Busy(q) => run[q].report \in DOMAIN reports
  BY RunTypes
<1>4. \A q \in Runs : Busy(q)' => reports'[run'[q].report].by = q
  BY <1>2, <1>3 DEF AnnouncedInv, Accounts
<1>5. \A q \in Runs : run'[q].at = "stamping" => run'[q].report \in handed'
  BY <1>1 DEF AnnouncedInv, Accounts
<1>6. \A s \in Schedules : run'[s] # Quiet => schedule'[s] # NeverMade
  BY <1>1 DEF AnnouncedInv, Accounts, Runs
<1>7. ASSUME NEW i \in DOMAIN reports', NEW s \in Schedules, reports'[i].by = s,
             reports'[i].status = "done"
      PROVE  \/ Finished(s)' /\ run'[s].report = i
             \/ i \in (handed' \intersect announced') \union disturbed'
             \/ schedule'[s] = Deleted
  <2>1. i \in DOMAIN reports /\ reports[i].by = s /\ s \in Runs
    BY <1>7 DEF GoesOn, Accounts, Runs
  <2>2. CASE i \in Own(k)
    <3>1. Busy(k) /\ i = run[k].report /\ s = k
      BY <2>1, <2>2 DEF Own, AnnouncedInv
    <3>2. Finished(k)' => run'[k].report = i
      BY <1>2, <3>1 DEF Busy, Finished
    <3>. QED
      BY <1>7, <2>1, <2>2, <3>1, <3>2 DEF Accounts
  <2>3. CASE i \notin Own(k)
    <3>1. reports[i].status = "done"
      BY <1>7, <2>1, <2>3 DEF GoesOn
    <3>2. CASE Finished(s) /\ run[s].report = i
      <4>1. s # k
        BY <2>3, <3>2 DEF Own, Finished, Busy
      <4>. QED
        BY <1>1, <2>1, <3>2, <4>1
    <3>3. CASE i \in (handed \intersect announced) \union disturbed \/ schedule[s] = Deleted
      BY <2>1, <3>3 DEF Accounts
    <3>. QED
      BY <2>1, <3>1, <3>2, <3>3 DEF AnnouncedInv
  <2>. QED
    BY <2>2, <2>3
<1>. QED
  BY <1>4, <1>5, <1>6, <1>7 DEF AnnouncedInv

LEMMA WorkIsAccounted ==
  ASSUME ReportingTypeOK, ReportInv, AnnouncedInv, NEW k \in Runs,
         Works(k) \/ (k \in Schedules /\ Fires(k)) \/ (k \in Requests /\ \E t : AsksFor(k, t)),
         ~InsertsReport(k)
  PROVE  Accounts(k)
<1>1. /\ Rendering(k) => reports[run[k].report].status = "running"
      /\ run[k].at = "stamping" => run[k].report \in handed
      /\ k \in Schedules /\ run[k] # Quiet => schedule[k] # NeverMade
      /\ Busy(k) <=> Rendering(k) \/ Finished(k)
      /\ run \in [Runs -> Run]
  BY DEF ReportInv, AnnouncedInv, ReportingTypeOK, Busy, Rendering, Finished
<1>2. ASSUME NEW t, Begins(k, t), run[k] = Quiet, k \in Schedules => schedule[k] # NeverMade,
             UNCHANGED <<schedule, reports, handed, announced, disturbed>>
      PROVE  Accounts(k)
  BY <1>1, <1>2 DEF Begins, Accounts, Own, Busy, Quiet
<1>3. CASE RejectsTemplate(k)
  BY <1>1, <1>3 DEF RejectsTemplate, Ends, Quiet, fixed, Accounts, Own, Busy
<1>4. ASSUME NEW deliver \in BOOLEAN, Rendered(k, deliver) PROVE Accounts(k)
  <2>1. /\ Rendering(k) /\ Busy(k)
        /\ reports' = [reports EXCEPT ![run[k].report].status = "done"]
        /\ run[k] # Quiet
        /\ UNCHANGED <<schedule, handed, announced, disturbed>>
        /\ run'[k].at # "stamping"
        /\ k \in Schedules => Finished(k)'
    BY <1>1, <1>4 DEF Rendered, Ends, Quiet, Rendering, Busy, fixed, Finished
  <2>2. \A j \in DOMAIN reports : reports'[j].by = reports[j].by
    BY <2>1, StatusSet
  <2>. QED
    BY <1>1, <2>1, <2>2 DEF Accounts
<1>5. CASE RenderRaises(k)
  <2>1. /\ Rendering(k) /\ Busy(k)
        /\ reports' = [reports EXCEPT ![run[k].report].status = "failed"]
        /\ UNCHANGED <<schedule, handed, announced, disturbed>>
        /\ run'[k] = Quiet /\ run'[k].at # "stamping"
    BY <1>1, <1>5 DEF RenderRaises, Ends, Quiet, Rendering, Busy, fixed
  <2>2. /\ \A j \in DOMAIN reports : reports'[j].by = reports[j].by
        /\ reports'[run[k].report].status = "failed"
    BY <2>1, StatusSet
  <2>. QED
    BY <2>1, <2>2 DEF Accounts, Own
<1>6. CASE RowIsLost(k)
  <2>1. /\ Rendering(k) /\ UNCHANGED <<schedule, reports, handed, announced, disturbed>>
        /\ run'[k] = Quiet /\ run'[k].at # "stamping"
    BY <1>1, <1>6 DEF RowIsLost, Ends, Quiet, Rendering, fixed
  <2>. QED
    BY <1>1, <2>1 DEF Accounts, Own
<1>7. CASE HandsOver(k)
  <2>1. /\ Finished(k) /\ run[k] # Quiet /\ UNCHANGED <<schedule, reports, announced, disturbed>>
        /\ handed' = handed \union {run[k].report}
        /\ run'[k].at = "stamping" => run'[k].report = run[k].report
        /\ k \in Schedules => Finished(k)'
    BY <1>1, <1>7 DEF HandsOver, Ends, Quiet, Finished, fixed
  <2>. QED
    BY <1>1, <2>1 DEF Accounts
<1>8. ASSUME k \in Schedules, NEW works \in BOOLEAN, Announces(k, works) PROVE Accounts(k)
  <2>1. /\ run[k].at = "stamping" /\ UNCHANGED <<schedule, reports, handed>>
        /\ run'[k] = Quiet /\ run'[k].at # "stamping"
        /\ announced' = IF Exists(k) /\ works THEN announced \union {run[k].report} ELSE announced
        /\ disturbed' = IF works THEN disturbed ELSE disturbed \union {run[k].report}
    BY <1>1, <1>8 DEF Announces, Ends, Quiet, fixed
  <2>2. run[k] # Quiet /\ run[k].report \in handed
    BY <1>1, <2>1 DEF Quiet
  <2>3. Exists(k) \/ schedule[k] = Deleted
    BY <1>1, <1>8, <2>2 DEF Exists
  <2>4. announced \subseteq announced' /\ disturbed \subseteq disturbed'
    BY <2>1
  <2>5. run[k].report \in (handed' \intersect announced') \union disturbed' \/ schedule[k] = Deleted
    <3>1. CASE works /\ Exists(k)
      BY <2>1, <2>2, <3>1
    <3>2. CASE ~works
      BY <2>1, <3>2
    <3>. QED
      BY <2>3, <3>1, <3>2
  <2>. QED
    BY <2>1, <2>4, <2>5 DEF Accounts, Own
<1>9. ASSUME k \in Schedules, Fires(k) PROVE Accounts(k)
  BY <1>2, <1>9 DEF Fires, Exists, fixed
<1>10. ASSUME k \in Requests, NEW t, AsksFor(k, t) PROVE Accounts(k)
  <2>1. k \notin Schedules
    BY <1>10, ReportingAssumption
  <2>. QED
    BY <1>2, <1>10, <2>1 DEF AsksFor, fixed
<1>. QED
  BY <1>3, <1>4, <1>5, <1>6, <1>7, <1>8, <1>9, <1>10 DEF Works

LEMMA InsertIsAccounted ==
  ASSUME ReportingTypeOK, ReportInv, AnnouncedInv, NEW k \in Runs, InsertsReport(k)
  PROVE  AnnouncedInv'
<1>. DEFINE n == Len(reports) + 1
<1>1. /\ \A q \in Runs \ {k} : run'[q] = run[q]
      /\ run'[k].at = "rendering" /\ run'[k].report = n
      /\ run[k] # Quiet /\ ~Busy(k) /\ UNCHANGED <<schedule, handed, announced, disturbed>>
      /\ Len(reports) < MaxReports
      /\ reports' = Append(reports, [status |-> "running", by |-> k])
  BY DEF InsertsReport, ReportingTypeOK, Busy, Quiet, fixed
<1>2. /\ n \notin DOMAIN reports /\ DOMAIN reports' = DOMAIN reports \union {n}
      /\ reports'[n].status = "running" /\ reports'[n].by = k
      /\ \A i \in DOMAIN reports : reports'[i] = reports[i]
  <2>1. GenerationTypes
    BY TypesSplit
  <2>. QED
    BY <1>1, <2>1, AppendRow
<1>. HIDE DEF n
<1>3. \A q \in Runs \ {k} : /\ Busy(q) => run[q].report \in DOMAIN reports
                            /\ (Busy(q)' <=> Busy(q)) /\ (Finished(q)' <=> Finished(q))
                            /\ run'[q].report = run[q].report
  BY <1>1, RunTypes DEF Busy, Finished
<1>4. ~Finished(k) /\ run'[k].at # "stamping"
  BY <1>1 DEF Finished, Busy
<1>5. \A q \in Runs : Busy(q)' => reports'[run'[q].report].by = q
  BY <1>1, <1>2, <1>3 DEF AnnouncedInv
<1>6. \A q \in Runs : run'[q].at = "stamping" => run'[q].report \in handed'
  BY <1>1, <1>4 DEF AnnouncedInv
<1>7. \A s \in Schedules : run'[s] # Quiet => schedule'[s] # NeverMade
  BY <1>1 DEF AnnouncedInv, Runs
<1>8. ASSUME NEW i \in DOMAIN reports', NEW s \in Schedules, reports'[i].by = s,
             reports'[i].status = "done"
      PROVE  \/ Finished(s)' /\ run'[s].report = i
             \/ i \in (handed' \intersect announced') \union disturbed'
             \/ schedule'[s] = Deleted
  <2>1. i \in DOMAIN reports /\ reports[i].by = s /\ reports[i].status = "done" /\ s \in Runs
    BY <1>2, <1>8 DEF Runs
  <2>. QED
    BY <1>1, <1>3, <1>4, <2>1 DEF AnnouncedInv
<1>. QED
  BY <1>5, <1>6, <1>7, <1>8 DEF AnnouncedInv

LEMMA CrashIsAccounted ==
  ASSUME ReportingTypeOK, AnnouncedInv, Crash
  PROVE  AnnouncedInv'
<1>1. /\ \A k \in Runs : ~Busy(k)' /\ run'[k] = Quiet /\ run'[k].at # "stamping"
      /\ UNCHANGED <<schedule, reports, handed, announced>>
      /\ disturbed' = disturbed \union {run[k].report : k \in {q \in Runs : Finished(q)}}
  BY DEF Crash, Quiet, Busy, Finished
<1>2. Schedules \subseteq Runs
  BY DEF Runs
<1>. QED
  BY <1>1, <1>2 DEF AnnouncedInv

(* The steps of the API and of a reload: a schedule that was made stays    *)
(* made, and one that was deleted stays deleted.                           *)
LEMMA EditIsAccounted ==
  ASSUME ReportingTypeOK, AnnouncedInv, UNCHANGED generation,
         \A s \in Schedules : /\ schedule[s] # NeverMade => schedule'[s] # NeverMade
                              /\ schedule[s] = Deleted => schedule'[s] = Deleted
  PROVE  AnnouncedInv'
<1>1. /\ run' = run /\ reports' = reports /\ handed' = handed
      /\ announced' = announced /\ disturbed' = disturbed
      /\ \A k \in Runs : (Busy(k)' <=> Busy(k)) /\ (Finished(k)' <=> Finished(k))
      /\ Schedules \subseteq Runs
  BY DEF generation, Busy, Finished, Runs
<1>2. ASSUME NEW i \in DOMAIN reports', NEW s \in Schedules, reports'[i].by = s,
             reports'[i].status = "done"
      PROVE  \/ Finished(s)' /\ run'[s].report = i
             \/ i \in (handed' \intersect announced') \union disturbed'
             \/ schedule'[s] = Deleted
  <2>1. \/ Finished(s) /\ run[s].report = i
        \/ i \in (handed \intersect announced) \union disturbed
        \/ schedule[s] = Deleted
    BY <1>1, <1>2 DEF AnnouncedInv
  <2>. QED
    BY <1>1, <2>1
<1>3. /\ \A k \in Runs : Busy(k)' => reports'[run'[k].report].by = k
      /\ \A k \in Runs : run'[k].at = "stamping" => run'[k].report \in handed'
  BY <1>1 DEF AnnouncedInv
<1>4. \A s \in Schedules : run'[s] # Quiet => schedule'[s] # NeverMade
  BY <1>1 DEF AnnouncedInv
<1>. QED
  BY <1>4, <1>2, <1>3 DEF AnnouncedInv

LEMMA AnnouncedInvNext ==
  ASSUME ReportingTypeOK, ReportInv, AnnouncedInv, [ReportingNext]_reportVars
  PROVE  AnnouncedInv'
<1>. /\ schedule \in [Schedules -> Rows \union {NeverMade, Deleted}] /\ Deleted # NeverMade
  BY DEF ReportingTypeOK, Deleted, NeverMade
<1>1. ASSUME UNCHANGED <<schedule, generation>> PROVE AnnouncedInv'
  BY <1>1, EditIsAccounted
<1>2. ASSUME NEW k \in Runs, Works(k) PROVE AnnouncedInv'
  BY <1>2, InsertIsAccounted, WorkGoesOn, WorkIsAccounted, StepIsAccounted
<1>3. ASSUME NEW s \in Schedules, Fires(s) PROVE AnnouncedInv'
  <2>1. s \in Runs /\ ~InsertsReport(s)
    BY <1>3 DEF Runs, Fires, InsertsReport, Quiet
  <2>. QED
    BY <1>3, <2>1, WorkGoesOn, WorkIsAccounted, StepIsAccounted
<1>4. ASSUME NEW q \in Requests, NEW t \in Templates \union {Unknown}, AsksFor(q, t) PROVE AnnouncedInv'
  <2>1. q \in Runs /\ ~InsertsReport(q)
    BY <1>4 DEF Runs, AsksFor, InsertsReport, Quiet
  <2>. QED
    BY <1>4, <2>1, WorkGoesOn, WorkIsAccounted, StepIsAccounted
<1>5. CASE Crash
  BY <1>5, CrashIsAccounted
<1>6. ASSUME NEW s \in Schedules, NEW row \in Rows, Commit(s, row), schedule[s] # Deleted,
             UNCHANGED generation
      PROVE  AnnouncedInv'
  <2>1. row # NeverMade
    BY RowIsNeither
  <2>2. schedule' = [schedule EXCEPT ![s] = row]
    BY <1>6 DEF Commit
  <2>. QED
    BY <1>6, <2>1, <2>2, EditIsAccounted
<1>7. ASSUME NEW e \in Editors, NEW s \in Schedules, NEW row \in Wanted, CreateSchedule(e, s, row)
      PROVE  AnnouncedInv'
  <2>1. row \in Rows
    BY ReportingAssumption
  <2>. QED
    BY <1>6, <1>7, <2>1 DEF CreateSchedule
<1>8. ASSUME NEW e \in Editors, NEW s \in Schedules, NEW row \in Wanted, UpdateLoads(e, s, row)
      PROVE  AnnouncedInv'
  BY <1>1, <1>8 DEF UpdateLoads
<1>9. ASSUME NEW e \in Editors, UpdateCommits(e) PROVE AnnouncedInv'
  <2>. DEFINE u == edit[e]
              row == Flush(u.found, u.wanted, schedule[u.schedule])
  <2>1. u.schedule \in Schedules /\ u.found \in Rows /\ u.wanted \in Rows /\ UNCHANGED generation
    BY <1>9, EditTypes, ReportingAssumption DEF UpdateCommits
  <2>2. CASE Exists(u.schedule)
    <3>1. schedule[u.schedule] \in Rows /\ schedule[u.schedule] # Deleted
      BY <2>1, <2>2 DEF Exists
    <3>2. row \in Rows
      BY <2>1, <3>1, FlushedRow
    <3>3. Commit(u.schedule, row)
      BY <1>9, <2>2 DEF UpdateCommits
    <3>. HIDE DEF u, row
    <3>. QED
      BY <1>6, <2>1, <3>1, <3>2, <3>3
  <2>3. CASE ~Exists(u.schedule)
    BY <1>1, <1>9, <2>3 DEF UpdateCommits
  <2>. QED
    BY <2>2, <2>3
<1>10. ASSUME NEW s \in Schedules, DeleteSchedule(s) PROVE AnnouncedInv'
  BY <1>10, EditIsAccounted DEF DeleteSchedule
<1>11. ASSUME NEW l \in DOMAIN edit, Reloads(l) PROVE AnnouncedInv'
  BY <1>1, <1>11 DEF Reloads, ReloadReads, ReloadRegisters, ReloadFails
<1>12. CASE UNCHANGED reportVars
  BY <1>1, <1>12 DEF reportVars, generation
<1>. QED
  BY <1>2, <1>3, <1>4, <1>5, <1>7, <1>8, <1>9, <1>10, <1>11, <1>12 DEF ReportingNext

LEMMA InitAnnouncedInv == ReportingInit => AnnouncedInv
BY DEF ReportingInit, AnnouncedInv, Busy, Runs, Quiet

(* A scheduled report that is done was handed over and announced, unless a *)
(* fault cut its run short or its schedule was deleted under it.           *)
THEOREM ReportingDoneIsAnnounced == ReportingSpec => []DoneIsAnnounced
<1>1. ReportingTypeOK /\ ReportInv /\ AnnouncedInv /\ [ReportingNext]_reportVars => AnnouncedInv'
  BY AnnouncedInvNext
<1>2. ReportingTypeOK /\ AnnouncedInv => DoneIsAnnounced
  BY DEF AnnouncedInv, DoneIsAnnounced, Finished, Runs
<1>3. ReportingTypeOK /\ ReportInv /\ [ReportingNext]_reportVars => ReportInv'
  BY ReportInvNext
<1>. QED
  BY <1>1, <1>2, <1>3, InitReportInv, InitAnnouncedInv, ReportingTypeCorrect, PTL DEF ReportingSpec

-----------------------------------------------------------------------------
(* A commit makes a reload due; what another reload has read is stale.     *)
LEMMA CommitKeepsReloadInv ==
  ASSUME ReportingTypeOK, ReloadInv, NEW e \in Editors, NEW s \in Schedules, NEW row, Commit(s, row),
         edit' = [edit EXCEPT ![e] = Reloading], UNCHANGED job
  PROVE  ReloadInv'
<1>1. /\ DOMAIN edit = Editors \union {Start} /\ DOMAIN edit' = DOMAIN edit
      /\ edit'[e].at = "reloading" /\ \A l \in DOMAIN edit \ {e} : edit'[l] = edit[l]
  BY DEF ReportingTypeOK, Reloading
<1>2. ReloadPending'
  BY <1>1 DEF ReloadPending
<1>3. /\ \A q \in Schedules \ {s} : schedule'[q] = schedule[q]
      /\ stale \subseteq stale'
      /\ (\E l \in DOMAIN edit : edit[l].at = "registering") => s \in stale'
  BY DEF Commit, ReportingTypeOK
<1>4. ASSUME NEW q \in Schedules \ stale', Live(q)', NEW l \in DOMAIN edit', edit'[l].at = "registering"
      PROVE  q \in DOMAIN edit'[l].crons /\ edit'[l].crons[q] = schedule'[q].cron
  <2>1. l # e /\ edit'[l] = edit[l] /\ l \in DOMAIN edit
    BY <1>1, <1>4
  <2>2. q # s /\ q \notin stale /\ schedule'[q] = schedule[q]
    BY <1>3, <1>4, <2>1
  <2>3. Live(q)
    BY <1>4, <2>2 DEF Live, Exists
  <2>. QED
    BY <1>4, <2>1, <2>2, <2>3 DEF ReloadInv
<1>. QED
  BY <1>2, <1>4 DEF ReloadInv

(* Steps that leave the rows and the jobs alone, or take rows away, and    *)
(* disturb no reload.                                                      *)
LEMMA QuietKeepsReloadInv ==
  ASSUME ReportingTypeOK, ReloadInv, UNCHANGED <<job, stale>>, DOMAIN edit' = DOMAIN edit,
         \A s \in Schedules : Live(s)' => Live(s) /\ schedule'[s] = schedule[s],
         \A l \in DOMAIN edit : edit'[l] = edit[l] \/ (edit[l].at \in {"idle", "loaded"} /\ edit'[l].at # "registering")
  PROVE  ReloadInv'
<1>1. ReloadPending => ReloadPending'
  BY DEF ReloadPending
<1>2. ASSUME NEW s \in Schedules \ stale', Live(s)', NEW l \in DOMAIN edit', edit'[l].at = "registering"
      PROVE  s \in DOMAIN edit'[l].crons /\ edit'[l].crons[s] = schedule'[s].cron
  <2>1. edit'[l] = edit[l] /\ l \in DOMAIN edit /\ s \notin stale
    BY <1>2
  <2>. QED
    BY <1>2, <2>1 DEF ReloadInv
<1>3. ASSUME NEW s \in Schedules \ stale', Live(s)', schedule'[s].cron # BadCron
      PROVE  job'[s] = [cron |-> schedule'[s].cron] \/ ReloadPending'
  BY <1>1, <1>3 DEF ReloadInv
<1>. QED
  BY <1>2, <1>3 DEF ReloadInv

LEMMA ReadsKeepsReloadInv ==
  ASSUME ReportingTypeOK, ReloadInv, NEW l \in DOMAIN edit, ReloadReads(l)
  PROVE  ReloadInv'
<1>1. /\ DOMAIN edit' = DOMAIN edit /\ \A m \in DOMAIN edit \ {l} : edit'[m] = edit[m]
      /\ edit'[l].at = "registering" /\ edit'[l].crons = EnabledCrons
      /\ UNCHANGED <<schedule, job, stale>>
  BY DEF ReloadReads, ReportingTypeOK
<1>2. ReloadPending'
  BY <1>1 DEF ReloadPending
<1>3. \A s \in Schedules : Live(s) => s \in DOMAIN EnabledCrons /\ EnabledCrons[s] = schedule[s].cron
  BY DEF EnabledCrons, Live
<1>4. \A s \in Schedules : Live(s)' <=> Live(s)
  BY <1>1 DEF Live, Exists
<1>5. ASSUME NEW s \in Schedules \ stale', Live(s)', NEW m \in DOMAIN edit', edit'[m].at = "registering"
      PROVE  s \in DOMAIN edit'[m].crons /\ edit'[m].crons[s] = schedule'[s].cron
  <2>1. CASE m = l
    BY <1>1, <1>3, <1>4, <1>5, <2>1
  <2>2. CASE m # l
    BY <1>1, <1>4, <1>5, <2>2 DEF ReloadInv
  <2>. QED
    BY <2>1, <2>2
<1>. QED
  BY <1>2, <1>5 DEF ReloadInv

LEMMA RegistersKeepsReloadInv ==
  ASSUME ReportingTypeOK, ReloadInv, NEW l \in DOMAIN edit, ReloadRegisters(l)
  PROVE  ReloadInv'
<1>. DEFINE crons == edit[l].crons
<1>1. /\ DOMAIN edit' = DOMAIN edit /\ \A m \in DOMAIN edit \ {l} : edit'[m] = edit[m]
      /\ edit[l].at = "registering" /\ edit'[l].at = "idle"
      /\ UNCHANGED <<schedule, stale>>
      /\ \A s \in Schedules : s \in DOMAIN crons /\ crons[s] # BadCron => job'[s] = [cron |-> crons[s]]
  BY DEF ReloadRegisters, ReportingTypeOK, Quiet
<1>2. \A s \in Schedules : Live(s)' <=> Live(s)
  BY <1>1 DEF Live, Exists
<1>3. ASSUME NEW s \in Schedules \ stale', Live(s)', NEW m \in DOMAIN edit', edit'[m].at = "registering"
      PROVE  s \in DOMAIN edit'[m].crons /\ edit'[m].crons[s] = schedule'[s].cron
  <2>1. m # l /\ edit'[m] = edit[m] /\ m \in DOMAIN edit
    BY <1>1, <1>3
  <2>. QED
    BY <1>1, <1>2, <1>3, <2>1 DEF ReloadInv
<1>4. ASSUME NEW s \in Schedules \ stale', Live(s)', schedule'[s].cron # BadCron
      PROVE  job'[s] = [cron |-> schedule'[s].cron]
  <2>1. s \in DOMAIN crons /\ crons[s] = schedule[s].cron
    BY <1>1, <1>2, <1>4 DEF ReloadInv
  <2>. QED
    BY <1>1, <1>4, <2>1
<1>. QED
  BY <1>3, <1>4 DEF ReloadInv

LEMMA CrashKeepsReloadInv ==
  ASSUME ReportingTypeOK, Crash
  PROVE  ReloadInv'
<1>1. /\ DOMAIN edit = Editors \union {Start}
      /\ edit' = [e \in DOMAIN edit |-> IF e = Start THEN Reloading ELSE Quiet]
  BY DEF ReportingTypeOK, Crash
<1>2. \A e \in DOMAIN edit' : edit'[e].at # "registering"
  BY <1>1 DEF Reloading, Quiet
<1>3. ReloadPending'
  BY <1>1 DEF ReloadPending, Reloading
<1>. QED
  BY <1>2, <1>3 DEF ReloadInv

LEMMA InitReloadInv == ReportingInit => ReloadInv
BY DEF ReportingInit, ReloadInv, Live, Exists

LEMMA ReloadInvNext ==
  ASSUME ReportingTypeOK, ReloadInv, [ReportingNext]_reportVars
  PROVE  ReloadInv'
<1>. /\ schedule \in [Schedules -> Rows \union {NeverMade, Deleted}]
     /\ DOMAIN edit = Editors \union {Start}
  BY DEF ReportingTypeOK
<1>1. ASSUME UNCHANGED <<schedule, job, edit, stale>> PROVE ReloadInv'
  BY <1>1, QuietKeepsReloadInv DEF Live, Exists
<1>2. ASSUME NEW e \in Editors, NEW s \in Schedules, NEW row \in Wanted, CreateSchedule(e, s, row)
      PROVE  ReloadInv'
  BY <1>2, CommitKeepsReloadInv DEF CreateSchedule
<1>3. ASSUME NEW e \in Editors, edit[e].at \in {"idle", "loaded"},
             DOMAIN edit' = DOMAIN edit, edit'[e].at # "registering",
             \A l \in DOMAIN edit : l # e => edit'[l] = edit[l],
             schedule' = schedule, job' = job, stale' = stale
      PROVE  ReloadInv'
  <2>1. \A s \in Schedules : Live(s)' => Live(s) /\ schedule'[s] = schedule[s]
    BY <1>3 DEF Live, Exists
  <2>2. \A l \in DOMAIN edit :
           edit'[l] = edit[l] \/ (edit[l].at \in {"idle", "loaded"} /\ edit'[l].at # "registering")
    BY <1>3
  <2>. QED
    BY <1>3, <2>1, <2>2, QuietKeepsReloadInv
<1>4. ASSUME NEW e \in Editors, NEW s \in Schedules, NEW row \in Wanted, UpdateLoads(e, s, row)
      PROVE  ReloadInv'
  <2>1. /\ edit[e].at = "idle" /\ edit'[e].at = "loaded"
        /\ DOMAIN edit' = DOMAIN edit
        /\ \A l \in DOMAIN edit : l # e => edit'[l] = edit[l]
        /\ schedule' = schedule /\ job' = job /\ stale' = stale
    BY <1>4 DEF UpdateLoads, Quiet
  <2>. QED
    BY <1>3, <2>1
<1>5. ASSUME NEW e \in Editors, UpdateCommits(e) PROVE ReloadInv'
  <2>. DEFINE s == edit[e].schedule
              row == Flush(edit[e].found, edit[e].wanted, schedule[s])
  <2>1. s \in Schedules /\ edit[e].at = "loaded" /\ UNCHANGED job
    BY <1>5, EditTypes DEF UpdateCommits
  <2>2. CASE Exists(s)
    <3>1. Commit(s, row) /\ edit' = [edit EXCEPT ![e] = Reloading]
      BY <1>5, <2>2 DEF UpdateCommits
    <3>. HIDE DEF s, row
    <3>. QED
      BY <2>1, <3>1, CommitKeepsReloadInv
  <2>3. CASE ~Exists(s)
    <3>1. /\ edit'[e].at = "idle" /\ DOMAIN edit' = DOMAIN edit
          /\ \A l \in DOMAIN edit : l # e => edit'[l] = edit[l]
          /\ schedule' = schedule /\ job' = job /\ stale' = stale
      BY <1>5, <2>3 DEF UpdateCommits, Quiet
    <3>. HIDE DEF s, row
    <3>. QED
      BY <1>3, <2>1, <3>1
  <2>. QED
    BY <2>2, <2>3
<1>6. ASSUME NEW s \in Schedules, DeleteSchedule(s) PROVE ReloadInv'
  <2>1. /\ UNCHANGED <<job, edit, stale>>
        /\ \A q \in Schedules : IF q = s THEN schedule'[q] = Deleted ELSE schedule'[q] = schedule[q]
    BY <1>6 DEF DeleteSchedule
  <2>2. \A q \in Schedules : Live(q)' => Live(q) /\ schedule'[q] = schedule[q]
    BY <2>1 DEF Live, Exists
  <2>. QED
    BY <2>1, <2>2, QuietKeepsReloadInv
<1>7. ASSUME NEW l \in DOMAIN edit, ReloadFails(l) PROVE ReloadInv'
  BY <1>7 DEF ReloadFails, ReloadInv
<1>8. ASSUME NEW l \in DOMAIN edit, Reloads(l) PROVE ReloadInv'
  BY <1>7, <1>8, ReadsKeepsReloadInv, RegistersKeepsReloadInv DEF Reloads
<1>9. ASSUME NEW k \in Runs, Works(k) PROVE ReloadInv'
  BY <1>1, <1>9 DEF Works, InsertsReport, RejectsTemplate, RenderRaises, RowIsLost, HandsOver,
                    Rendered, Announces, fixed
<1>10. CASE Crash
  BY <1>10, CrashKeepsReloadInv
<1>11. ASSUME NEW s \in Schedules, Fires(s) PROVE ReloadInv'
  BY <1>1, <1>11 DEF Fires, fixed
<1>12. ASSUME NEW q \in Requests, NEW t, AsksFor(q, t) PROVE ReloadInv'
  BY <1>1, <1>12 DEF AsksFor, fixed
<1>13. CASE UNCHANGED reportVars
  BY <1>1, <1>13 DEF reportVars
<1>. QED
  BY <1>2, <1>4, <1>5, <1>6, <1>8, <1>9, <1>10, <1>11, <1>12, <1>13 DEF ReportingNext

(* When no reload is under way, an enabled schedule runs on the cron of its*)
(* row, unless an edit slipped in behind a reload or a reload failed.      *)
THEOREM ReportingJobMatchesRow == ReportingSpec => []JobMatchesRow
<1>1. ReportingTypeOK /\ ReloadInv /\ [ReportingNext]_reportVars => ReloadInv'
  BY ReloadInvNext
<1>2. ReloadInv => JobMatchesRow
  BY DEF ReloadInv, Live, ReloadPending, JobMatchesRow
<1>. QED
  BY <1>1, <1>2, InitReloadInv, ReportingTypeCorrect, PTL DEF ReportingSpec
=============================================================================
