------------------------------- MODULE Reporting -------------------------------
(***************************************************************************)
(* The reporting service: the schedules API, the cron jobs in the process  *)
(* (reporting/app/workers/scheduler.py), generation with its report rows,  *)
(* and the hand-off to the WhatsApp adapter.                               *)
(*                                                                         *)
(* Requests, reloads and scheduled runs interleave at every commit and     *)
(* call.  APScheduler keeps one job per schedule, replaced when it is added*)
(* again, and starts no second run beside one that is going on.  The name  *)
(* and the recipients of a schedule go the way of its cron.  Renderable is *)
(* the templates whose variables the data of the callers has: none of the  *)
(* five in templating.py, which look for `data`, `orders`, `comp` ... while*)
(* the API passes the fields of a summary and the scheduler nothing.       *)
(***************************************************************************)
EXTENDS AutomationRules

CONSTANTS Schedules, Editors, Requests,
          Start,        \* the reload of the process's start-up
          Templates, Renderable,
          Unknown,      \* a template no registry has
          Crons,
          BadCron,      \* text CronTrigger does not read
          Wanted,       \* the rows the schedule requests carry
          Faults,       \* what may fail: "database", "disk", "redis", "crash"
          MaxReports    \* bound on the report rows

Rows == [cron : Crons \union {BadCron}, enabled : BOOLEAN, template : Templates \union {Unknown}]

ASSUME ReportingAssumption ==
    /\ Renderable \subseteq Templates /\ Unknown \notin Templates /\ BadCron \notin Crons
    /\ Wanted \subseteq Rows
    /\ Start \notin Editors /\ Schedules \intersect Requests = {} /\ MaxReports \in Nat

VARIABLES schedule,   \* the row of each schedule
          job,        \* the cron of its job in the process, if it has one
          edit,       \* what each API request, and the start-up, is about to do
          run,        \* what each scheduled or requested generation is about to do
          reports,    \* the report rows, in the order of their inserts
          handed,     \* history: reports deliver_report() was called for
          announced,  \* history: reports a ReportReady event was sent for
          orphaned,   \* history: rows a crash or the database left RUNNING
          disturbed,  \* history: reports whose run a fault cut short
          stale       \* history: schedules edited while a reload was under way,
                      \* or whose reload failed

reportVars == <<schedule, job, edit, run, reports, handed, announced, orphaned, disturbed, stale>>

NeverMade == [made |-> FALSE]
Deleted == [made |-> TRUE]
NoJob == [job |-> FALSE]
Quiet == [at |-> "idle"]
Reloading == [at |-> "reloading"]
Runs == Schedules \union Requests
Exists(s) == schedule[s] \notin {NeverMade, Deleted}

ReportingInit ==
    /\ schedule = [s \in Schedules |-> NeverMade]
    /\ job = [s \in Schedules |-> NoJob]
    /\ edit = [e \in Editors \union {Start} |-> IF e = Start THEN Reloading ELSE Quiet]
    /\ run = [k \in Runs |-> Quiet]
    /\ reports = <<>>
    /\ handed = {} /\ announced = {} /\ orphaned = {} /\ disturbed = {} /\ stale = {}

generation == <<run, reports, handed, announced, orphaned, disturbed>>

-----------------------------------------------------------------------------
(* The schedules API.                                                      *)
(* A reload that has read the rows and not yet registered them misses s.   *)
Commit(s, row) ==
    /\ schedule' = [schedule EXCEPT ![s] = row]
    /\ stale' = IF \E l \in DOMAIN edit : edit[l].at = "registering"
                  THEN stale \union {s} ELSE stale

CreateSchedule(e, s, row) ==
    /\ edit[e] = Quiet /\ schedule[s] = NeverMade
    /\ Commit(s, row)
    /\ edit' = [edit EXCEPT ![e] = Reloading]
    /\ UNCHANGED <<job, generation>>

UpdateLoads(e, s, wanted) ==
    /\ edit[e] = Quiet /\ Exists(s)
    /\ edit' = [edit EXCEPT ![e] = [at |-> "loaded", schedule |-> s,
                                    found |-> schedule[s], wanted |-> wanted]]
    /\ UNCHANGED <<schedule, job, stale, generation>>

(* Faulty variant: the update does not reload.                             *)
UpdateKeepsJob(e) ==
    LET u == edit[e]
    IN  /\ u.at = "loaded"
        /\ IF Exists(u.schedule)
             THEN Commit(u.schedule, Flush(u.found, u.wanted, schedule[u.schedule]))
             ELSE UNCHANGED <<schedule, stale>>
        /\ edit' = [edit EXCEPT ![e] = Quiet]
        /\ UNCHANGED <<job, generation>>

(* An update of a row that was deleted meanwhile matches nothing: it raises*)
(* before the reload.                                                      *)
UpdateCommits(e) ==
    LET u == edit[e]
    IN  /\ u.at = "loaded"
        /\ IF Exists(u.schedule)
             THEN /\ Commit(u.schedule, Flush(u.found, u.wanted, schedule[u.schedule]))
                  /\ edit' = [edit EXCEPT ![e] = Reloading]
             ELSE /\ edit' = [edit EXCEPT ![e] = Quiet]
                  /\ UNCHANGED <<schedule, stale>>
        /\ UNCHANGED <<job, generation>>

(* The job stays.                                                          *)
DeleteSchedule(s) ==
    /\ Exists(s)
    /\ schedule' = [schedule EXCEPT ![s] = Deleted]
    /\ UNCHANGED <<job, edit, stale, generation>>

-----------------------------------------------------------------------------
(* _reload_schedules()                                                     *)
EnabledCrons == [s \in {q \in Schedules : Exists(q) /\ schedule[q].enabled} |-> schedule[s].cron]

ReloadReads(l) ==
    /\ edit[l] = Reloading
    /\ edit' = [edit EXCEPT ![l] = [at |-> "registering", crons |-> EnabledCrons]]
    /\ UNCHANGED <<schedule, job, stale, generation>>

(* A cron that does not parse is skipped, with the job it has.             *)
ReloadRegisters(l) ==
    LET crons == edit[l].crons
    IN  /\ edit[l].at = "registering"
        /\ job' = [s \in Schedules |-> IF s \in DOMAIN crons /\ crons[s] # BadCron
                                         THEN [cron |-> crons[s]] ELSE job[s]]
        /\ edit' = [edit EXCEPT ![l] = Quiet]
        /\ UNCHANGED <<schedule, stale, generation>>

(* The database fails; the endpoints swallow it.                           *)
ReloadFails(l) ==
    /\ "database" \in Faults
    /\ edit[l] = Reloading
    /\ edit' = [edit EXCEPT ![l] = Quiet]
    /\ stale' = Schedules
    /\ UNCHANGED <<schedule, job, generation>>

-----------------------------------------------------------------------------
(* Generation.                                                             *)
Begins(k, template) == run' = [run EXCEPT ![k] = [at |-> "generating", template |-> template]]
Ends(k) == run' = [run EXCEPT ![k] = Quiet]
fixed == <<schedule, job, edit, stale>>

(* _run_scheduled(): the row is read when the trigger fires, and ignored   *)
(* when it is gone or disabled.                                            *)
Fires(s) ==
    /\ job[s] # NoJob /\ run[s] = Quiet
    /\ Exists(s) /\ schedule[s].enabled
    /\ Begins(s, schedule[s].template)
    /\ UNCHANGED <<fixed, reports, handed, announced, orphaned, disturbed>>

(* POST /reports.                                                          *)
AsksFor(q, template) ==
    /\ run[q] = Quiet
    /\ Begins(q, template)
    /\ UNCHANGED <<fixed, reports, handed, announced, orphaned, disturbed>>

(* generate() inserts the row, as RUNNING.                                 *)
InsertsReport(k) ==
    /\ run[k].at = "generating" /\ run[k].template # Unknown
    /\ Len(reports) < MaxReports
    /\ reports' = Append(reports, [status |-> "running", by |-> k])
    /\ run' = [run EXCEPT ![k] = [at |-> "rendering", template |-> @.template,
                                  report |-> Len(reports) + 1]]
    /\ UNCHANGED <<fixed, handed, announced, orphaned, disturbed>>

RejectsTemplate(k) ==
    /\ run[k].at = "generating" /\ run[k].template = Unknown
    /\ Ends(k)
    /\ UNCHANGED <<fixed, reports, handed, announced, orphaned, disturbed>>

(* render_template() raises when the data has not what the template names. *)
Renders(template) == template \in Renderable

(* Rendered and stored; a requested report is handed over when asked for.  *)
Rendered(k, deliver) ==
    LET g == run[k]
    IN  /\ g.at = "rendering" /\ Renders(g.template)
        /\ k \in Schedules => deliver
        /\ reports' = [reports EXCEPT ![g.report].status = "done"]
        /\ IF deliver THEN run' = [run EXCEPT ![k] = [at |-> "handing", report |-> g.report]]
                      ELSE Ends(k)
        /\ UNCHANGED <<fixed, handed, announced, orphaned, disturbed>>

(* Faulty variant: the exception is raised without the row.                *)
RaisesPastRow(k) ==
    LET g == run[k]
    IN  /\ g.at = "rendering"
        /\ Renders(g.template) => Faults \intersect {"disk", "database"} # {}
        /\ Ends(k)
        /\ UNCHANGED <<fixed, reports, handed, announced, orphaned, disturbed>>

(* The template, the file or the row's update raises: the row is FAILED.   *)
RenderRaises(k) ==
    LET g == run[k]
    IN  /\ g.at = "rendering"
        /\ Renders(g.template) => Faults \intersect {"disk", "database"} # {}
        /\ reports' = [reports EXCEPT ![g.report].status = "failed"]
        /\ Ends(k)
        /\ UNCHANGED <<fixed, handed, announced, orphaned, disturbed>>

(* The database fails for both updates: the row stays RUNNING.             *)
RowIsLost(k) ==
    /\ "database" \in Faults
    /\ run[k].at = "rendering"
    /\ orphaned' = orphaned \union {run[k].report}
    /\ Ends(k)
    /\ UNCHANGED <<fixed, reports, handed, announced, disturbed>>

(* deliver_report() tries once and never raises, whatever the adapter says,*)
(* or when there is nobody to deliver to.                                  *)
HandsOver(k) ==
    LET g == run[k]
    IN  /\ g.at = "handing"
        /\ handed' = handed \union {g.report}
        /\ IF k \in Schedules
             THEN run' = [run EXCEPT ![k] = [at |-> "stamping", report |-> g.report]]
             ELSE Ends(k)
        /\ UNCHANGED <<fixed, reports, announced, orphaned, disturbed>>

(* Faulty variant: only a run whose hand-over the adapter accepted goes on.*)
AnnouncesAccepted(s, accepted) ==
    LET g == run[s]
    IN  /\ g.at = "stamping"
        /\ announced' = IF Exists(s) /\ accepted THEN announced \union {g.report} ELSE announced
        /\ Ends(s)
        /\ UNCHANGED <<fixed, reports, handed, orphaned, disturbed>>

(* last_run_at is set on the schedule's row, then ReportReady is sent; the *)
(* update of a deleted schedule raises before the event.  Without Redis or *)
(* the database there is no event either.                                  *)
Announces(s, works) ==
    LET g == run[s]
    IN  /\ g.at = "stamping"
        /\ works \/ Faults \intersect {"redis", "database"} # {}
        /\ announced' = IF Exists(s) /\ works THEN announced \union {g.report} ELSE announced
        /\ disturbed' = IF works THEN disturbed ELSE disturbed \union {g.report}
        /\ Ends(s)
        /\ UNCHANGED <<fixed, reports, handed, orphaned>>

(* The process dies and starts again: jobs and runs are gone, rows stay.   *)
Crash ==
    /\ "crash" \in Faults
    /\ \E k \in Runs : run[k] # Quiet
    /\ job' = [s \in Schedules |-> NoJob]
    /\ edit' = [e \in DOMAIN edit |-> IF e = Start THEN Reloading ELSE Quiet]
    /\ run' = [k \in Runs |-> Quiet]
    /\ orphaned' = orphaned \union {run[k].report : k \in {q \in Runs : run[q].at = "rendering"}}
    /\ disturbed' = disturbed \union
         {run[k].report : k \in {q \in Runs : run[q].at \in {"handing", "stamping"}}}
    /\ stale' = {}
    /\ UNCHANGED <<schedule, reports, handed, announced>>

-----------------------------------------------------------------------------
Works(k) == \/ InsertsReport(k) \/ RejectsTemplate(k) \/ RenderRaises(k) \/ RowIsLost(k)
            \/ HandsOver(k)
            \/ \E b \in BOOLEAN : Rendered(k, b)
            \/ k \in Schedules /\ \E b \in BOOLEAN : Announces(k, b)
Reloads(l) == ReloadReads(l) \/ ReloadRegisters(l) \/ ReloadFails(l)

ReportingNext ==
    \/ \E e \in Editors : \/ \E s \in Schedules, row \in Wanted : CreateSchedule(e, s, row) \/ UpdateLoads(e, s, row)
                          \/ UpdateCommits(e)
    \/ \E l \in DOMAIN edit : Reloads(l)
    \/ \E s \in Schedules : DeleteSchedule(s) \/ Fires(s)
    \/ \E q \in Requests, t \in Templates \union {Unknown} : AsksFor(q, t)
    \/ \E k \in Runs : Works(k)
    \/ Crash

ReportingSpec == ReportingInit /\ [][ReportingNext]_reportVars

-----------------------------------------------------------------------------
Edit == {Quiet, Reloading}
        \union [at : {"loaded"}, schedule : Schedules, found : Rows, wanted : Wanted]
        \union [at : {"registering"},
                crons : UNION {[S -> Crons \union {BadCron}] : S \in SUBSET Schedules}]
Run == {Quiet}
       \union [at : {"generating"}, template : Templates \union {Unknown}]
       \union [at : {"rendering"}, template : Templates, report : 1..MaxReports]
       \union [at : {"handing", "stamping"}, report : 1..MaxReports]

ReportingTypeOK ==
    /\ schedule \in [Schedules -> Rows \union {NeverMade, Deleted}]
    /\ job \in [Schedules -> [cron : Crons] \union {NoJob}]
    /\ edit \in [Editors \union {Start} -> Edit]
    /\ run \in [Runs -> Run]
    /\ reports \in Seq([status : {"running", "done", "failed"}, by : Runs])
    /\ Len(reports) <= MaxReports
    /\ \A k \in Runs : run[k].at \in {"rendering", "handing", "stamping"} => run[k].report \in DOMAIN reports
    /\ (handed \union announced \union orphaned \union disturbed) \subseteq DOMAIN reports
    /\ stale \subseteq Schedules

(* When no reload is under way every enabled schedule runs on the cron of  *)
(* its row, unless it was committed between the read and the registration  *)
(* of another reload, or a reload failed: then the job keeps what it has   *)
(* until the next edit.                                                    *)
JobMatchesRow ==
    (\A l \in DOMAIN edit : edit[l].at \in {"idle", "loaded"}) =>
        \A s \in Schedules \ stale :
            (Exists(s) /\ schedule[s].enabled /\ schedule[s].cron # BadCron)
                => job[s] = [cron |-> schedule[s].cron]

(* A report reads RUNNING while its generation is at work, and for ever    *)
(* when a crash or the database cut that short: nothing takes it up again, *)
(* and nothing else leaves a row RUNNING.                                  *)
RunningIsRendering ==
    {i \in DOMAIN reports : reports[i].status = "running"} =
        orphaned \union {run[k].report : k \in {q \in Runs : run[q].at = "rendering"}}

(* A scheduled report that is done was handed over and announced, unless a *)
(* fault cut its run short or its schedule was deleted under it.           *)
DoneIsAnnounced ==
    \A i \in DOMAIN reports :
        LET s == reports[i].by
        IN  (/\ reports[i].status = "done" /\ s \in Schedules
             /\ \A k \in Runs : run[k].at \in {"handing", "stamping"} => run[k].report # i)
              => i \in (handed \intersect announced) \union disturbed \/ schedule[s] = Deleted

(* "scheduled runs always deliver to the configured recipients"            *)
(* (reporting/README.md:35): a run that is over has handed its report over.*)
ScheduledRunsDeliver ==
    \A i \in DOMAIN reports :
        (reports[i].by \in Schedules /\ \A k \in Runs : run[k].at \in {"rendering", "handing"} => run[k].report # i)
            => i \in handed
=============================================================================
