----------------------------- MODULE Resolution -----------------------------
(* The sandbox and the question verify_resolution asks of it: did the        *)
(* incident recover?  The demo service answers requests and logs a line for  *)
(* each; the chaos scripts break it, fix it and wipe its files, one small    *)
(* step at a time; runs of the incident begin and end; and the verifier      *)
(* reads the run, then the log, then the deploys, while all of this goes on. *)
(*                                                                           *)
(* The log is a set of lines and the deploy log a set of commits: nothing    *)
(* here depends on their order.  Time is in seconds, the resolution of every *)
(* timestamp in the system, and does not run backwards.  The docs commit of  *)
(* bad_deploy is a day older than everything else and is left out.           *)
EXTENDS Integers, Sequences, FiniteSets

CONSTANTS Routes,      \* the routes the demo service logs
          Failing,     \* those that go through auth.verify_token
          NoRoute,     \* a line that names no route
          NoTime,      \* None
          Lag,         \* how far bad_deploy backdates its commit
          Latency,     \* longest time from answering a request to its line
          Sinces,      \* values of since= an operator may pass
          MaxTime, MaxRuns, MaxServed, MaxLines      \* bounds

ASSUME RoutesAssumption == NoRoute \notin Routes /\ Failing \subseteq Routes
ASSUME TimesAssumption ==
  /\ Lag \in Nat /\ Latency \in Nat /\ MaxTime \in Nat /\ MaxRuns \in Nat
  /\ MaxServed \in Nat /\ MaxLines \in Nat /\ NoTime \notin Int /\ Sinces \subseteq Int

VARIABLES now,
          flag,       \* demo/.bad_deploy exists
          deploys,    \* the commits of deploy_log.json
          log,        \* the lines of the incident log
          served,     \* requests answered whose line is not stamped yet
          script,     \* the step the chaos script that is running does next
          runs,       \* the incident's runs
          reading,    \* what a verify_resolution under way has read
          broken,     \* history: when the marker was last touched
          fix         \* history: the fix_deploy that healed the service
vars == <<now, flag, deploys, log, served, script, runs, reading, broken, fix>>

files   == <<flag, deploys, log>>
history == <<broken, fix>>

Commit == [sha : {"bad", "fix"}, ts : Int]
Line   == [route : Routes \cup {NoRoute}, ts : Int, failed : BOOLEAN]
Answer == [route : Routes, at : Int, failed : BOOLEAN]
Run    == [started : Int, ended : Int \cup {NoTime}]
NoFix  == [unlinked |-> NoTime, done |-> NoTime]

Init ==
  /\ now = 0 /\ flag = FALSE /\ deploys = {} /\ log = {} /\ served = {}
  /\ script = "idle" /\ runs = <<>> /\ reading = {}
  /\ broken = NoTime /\ fix = NoFix

-----------------------------------------------------------------------------
(* The verdict.                                                              *)

(* The latest deploy strictly after the run started, else the run's end,     *)
(* else its start.                                                           *)
FixBoundary(commits, run) ==
  LET later == {c.ts : c \in {d \in commits : d.ts > run.started}}
  IN  IF later # {} THEN CHOOSE t \in later : \A u \in later : t >= u
      ELSE IF run.ended # NoTime THEN run.ended ELSE run.started

RoutesOf(lines)  == {r.route : r \in lines}
Errors(lines)    == RoutesOf({r \in lines : r.failed})
Pre(lines, t)    == {r \in lines : r.ts < t}
Post(lines, t)   == {r \in lines : r.ts >= t}

Residual(lines, t) == Errors(Pre(lines, t)) \cap Errors(Post(lines, t))

(* Slip: silence taken for recovery.                                         *)
RecoveredUnconfirmed(lines, t) ==
  {r \in Errors(Pre(lines, t)) : r # NoRoute /\ r \notin Errors(Post(lines, t))}

(* Lines without a route cannot be told apart, so they confirm nothing.      *)
Recovered(lines, t) ==
  {r \in Errors(Pre(lines, t)) :
     r # NoRoute /\ r \in RoutesOf(Post(lines, t)) \ Errors(Post(lines, t))}

Unconfirmed(lines, t) ==
  Errors(Pre(lines, t)) \ (Residual(lines, t) \cup Recovered(lines, t))

Verdict(lines, t) ==
  IF Errors(Pre(lines, t)) = {} THEN "inconclusive"
  ELSE IF Residual(lines, t) # {} THEN "not_recovered"
  ELSE IF Unconfirmed(lines, t) # {} THEN "inconclusive"
  ELSE "recovered"

(* _read_current_signals reads the log before the deploys; the run was read  *)
(* before both.  Who reads deploy_log.json while a script is at work on it   *)
(* may find it empty or torn, which reads as no deploys.                     *)
ReadLog ==
  /\ reading = {}
  /\ \E i \in 1..Len(runs) : reading' = {[run |-> runs[i], lines |-> log]}
  /\ UNCHANGED <<now, files, served, script, history, runs>>

Readable == {deploys} \cup {d \in {{}} : script # "idle"}

Boundaries(run) ==
  Sinces \cup {FixBoundary(commits, run) : commits \in Readable}

(* The verdict is returned and appended as an event, which changes nothing   *)
(* here (IncidentService's VerifyResolution has the event).                  *)
Conclude ==
  /\ reading # {} /\ reading' = {}
  /\ UNCHANGED <<now, files, served, script, history, runs>>

-----------------------------------------------------------------------------
(* The demo service: the handler decides, the log line is stamped and        *)
(* written afterwards, and lines of other requests come in between.          *)

(* A bound: the log stands still between the two reads of a check, which     *)
(* does not look at it again.                                                *)
Checking == reading # {}
Room  == ~Checking /\ Cardinality(log) + Cardinality(served) < MaxLines

Serve ==
  /\ Cardinality(served) < MaxServed /\ Room
  /\ \E route \in Routes :
       served' = served \cup {[route |-> route, at |-> now,
                               failed |-> flag /\ route \in Failing]}
  /\ UNCHANGED <<now, files, script, history, runs, reading>>

LogLine ==
  /\ ~Checking
  /\ \E a \in served :
       /\ log' = log \cup {[route |-> a.route, ts |-> now, failed |-> a.failed]}
       /\ served' = served \ {a}
  /\ UNCHANGED <<now, flag, deploys, script, history, runs, reading>>

(* Another program appends to the file the operator pointed at; its lines    *)
(* name no route.                                                            *)
StrayLine ==
  /\ Room
  /\ \E failed \in BOOLEAN :
       log' = log \cup {[route |-> NoRoute, ts |-> now, failed |-> failed]}
  /\ UNCHANGED <<now, flag, deploys, served, script, history, runs, reading>>

(* A new app session truncates the log and loses what was in flight.         *)
Restart ==
  /\ log' = {} /\ served' = {}
  /\ UNCHANGED <<now, flag, deploys, script, history, runs, reading>>

-----------------------------------------------------------------------------
(* The chaos scripts; one operator runs one at a time.                       *)

(* bad_deploy: rewrite the deploy log, then touch the marker.                *)

(* Slip: appended to what is there, an earlier fix included.                 *)
BadCommitsKept == deploys \cup {[sha |-> "bad", ts |-> now - Lag]}

BadCommits == {[sha |-> "bad", ts |-> now - Lag]}

BadWrite ==
  /\ script = "idle"
  /\ deploys' = BadCommits /\ script' = "bad_touch" /\ fix' = NoFix
  /\ UNCHANGED <<now, flag, log, served, broken, runs, reading>>

BadTouch ==
  /\ script = "bad_touch"
  /\ flag' = TRUE /\ broken' = now /\ script' = "idle"
  /\ UNCHANGED <<now, deploys, log, served, fix, runs, reading>>

(* fix_deploy: remove the marker, then append the fix to the deploy log      *)
(* unless it is there.                                                       *)
FixUnlink ==
  /\ script = "idle"
  /\ flag' = FALSE /\ script' = "fix_write"
  /\ fix' = IF flag THEN [unlinked |-> now, done |-> NoTime] ELSE fix
  /\ UNCHANGED <<now, deploys, log, served, broken, runs, reading>>

WithFix ==
  IF \E c \in deploys : c.sha = "fix" THEN deploys
  ELSE deploys \cup {[sha |-> "fix", ts |-> now]}

FixWrite ==
  /\ script = "fix_write"
  /\ deploys' = WithFix /\ script' = "idle"
  /\ fix' = IF fix.unlinked # NoTime /\ fix.done = NoTime
            THEN [fix EXCEPT !.done = now] ELSE fix
  /\ UNCHANGED <<now, flag, log, served, broken, runs, reading>>

(* reset: remove the marker, then the deploy log and the lines.              *)
ResetUnlink ==
  /\ script = "idle"
  /\ flag' = FALSE /\ script' = "reset_files" /\ fix' = NoFix
  /\ UNCHANGED <<now, deploys, log, served, broken, runs, reading>>

ResetFiles ==
  /\ script = "reset_files"
  /\ deploys' = {} /\ log' = {} /\ script' = "idle"
  /\ UNCHANGED <<now, flag, served, history, runs, reading>>

(* A script stopped half-way leaves what it has done; stopped inside         *)
(* write_text, which truncates the file first, it leaves an empty or a torn  *)
(* deploy log, and that reads as no deploys (bad_deploy's write is its first *)
(* step: stopped there, it is seen here as stopped before the marker).       *)
Killed ==
  /\ script # "idle"
  /\ script' = "idle" /\ fix' = NoFix
  /\ deploys' \in {deploys, {}}
  /\ UNCHANGED <<now, flag, log, served, broken, runs, reading>>

-----------------------------------------------------------------------------
(* The incident's runs, one after the other, and the clock.                  *)

Ended == \A i \in 1..Len(runs) : runs[i].ended # NoTime

StartRun ==
  /\ Ended /\ Len(runs) < MaxRuns
  /\ runs' = Append(runs, [started |-> now, ended |-> NoTime])
  /\ UNCHANGED <<now, files, served, script, history, reading>>

EndRun ==
  /\ ~Ended
  /\ runs' = [runs EXCEPT ![Len(runs)].ended = now]
  /\ UNCHANGED <<now, files, served, script, history, reading>>

Tick ==
  /\ now < MaxTime
  /\ \A a \in served : now < a.at + Latency
  /\ now' = now + 1
  /\ UNCHANGED <<files, served, script, history, runs, reading>>

Next ==
  \/ ReadLog \/ Conclude \/ Serve \/ LogLine \/ StrayLine \/ Restart
  \/ BadWrite \/ BadTouch \/ FixUnlink \/ FixWrite
  \/ ResetUnlink \/ ResetFiles \/ Killed
  \/ StartRun \/ EndRun \/ Tick

Spec == Init /\ [][Next]_vars

-----------------------------------------------------------------------------
(* Every variable keeps its type.                                            *)
ResolutionTypeOK ==
  /\ now \in Int /\ flag \in BOOLEAN
  /\ deploys \subseteq Commit /\ log \subseteq Line /\ served \subseteq Answer
  /\ script \in {"idle", "bad_touch", "fix_write", "reset_files"}
  /\ runs \in Seq(Run)
  /\ reading \subseteq [run : Run, lines : SUBSET Line]
  /\ broken \in Int \cup {NoTime}
  /\ fix \in [unlinked : Int \cup {NoTime}, done : Int \cup {NoTime}]

(* Soundness of the verdict (resolution.py 184-226): a verdict `recovered`   *)
(* that stands while the service is broken is explained by a new bad deploy: *)
(* the marker was touched after the recovery window opened, up to the time a *)
(* request may take to log its line.  The verdict never comes from silence,  *)
(* from healthy lines older than the window, from another route's traffic or *)
(* from a log and a deploy log read at different moments.                    *)
RecoveredIsHealed ==
  \A r \in reading : \A t \in Boundaries(r.run) :
    Verdict(r.lines, t) = "recovered" /\ flag => broken + Latency >= t

(* Completeness of the verdict (resolution.py 101-112, fix_deploy.py 30-61): *)
(* once fix_deploy has healed the service the incident's latest run was      *)
(* about, later healthy traffic on every failing route is recognised as      *)
(* recovery.  The errors must have been stamped before the second of the     *)
(* fix and every failing line must name its route, or the verdict says so.   *)
FixIsObserved ==
  LET run    == runs[Len(runs)]
      errors == {r \in log : r.failed}
  IN  /\ Len(runs) > 0 /\ script = "idle" /\ fix.done # NoTime
      /\ run.started < fix.unlinked
      /\ errors # {}
      /\ \A r \in errors : r.ts < fix.unlinked /\ r.route # NoRoute
      /\ \A r \in errors : \E x \in log \ errors :
           x.route = r.route /\ x.ts >= fix.done
      => Verdict(log, FixBoundary(deploys, run)) = "recovered"
=============================================================================
