-------------------------- MODULE ResolutionProofs --------------------------
(* A recovered verdict means a healed service, and a healed service gets     *)
(* one: the type invariant of Resolution and the soundness and completeness  *)
(* of its verdict, for any routes, any lag, latency and number of runs,      *)
(* requests and lines.                                                       *)
EXTENDS Resolution, TLAPS

(* Ending the last run keeps the sequence of runs.                           *)
LEMMA EndRunTyped ==
  ASSUME runs \in Seq(Run), now \in Int, NEW last \in 1..Len(runs)
  PROVE  [runs EXCEPT ![last].ended = now] \in Seq(Run)
<1>1. runs[last] \in Run
  OBVIOUS
<1>2. [runs[last] EXCEPT !.ended = now] \in Run
  BY <1>1 DEF Run
<1> QED
  BY <1>2

LEMMA ResolutionTypeInit == Init => ResolutionTypeOK
<1> SUFFICES ASSUME Init PROVE ResolutionTypeOK
  OBVIOUS
<1>1. runs \in Seq(Run) /\ fix \in [unlinked : Int \cup {NoTime}, done : Int \cup {NoTime}]
  BY DEF Init, NoFix
<1>2. /\ deploys \subseteq Commit /\ log \subseteq Line /\ served \subseteq Answer
      /\ reading \subseteq [run : Run, lines : SUBSET Line]
  BY DEF Init
<1>3. now \in Int /\ broken \in Int \cup {NoTime}
  BY DEF Init
<1>4. flag \in BOOLEAN /\ script \in {"idle", "bad_touch", "fix_write", "reset_files"}
  BY DEF Init
<1> QED
  BY <1>1, <1>2, <1>3, <1>4 DEF ResolutionTypeOK

LEMMA ResolutionTypeStep ==
  ASSUME ResolutionTypeOK, [Next]_vars
  PROVE  ResolutionTypeOK'
<1> USE RoutesAssumption, TimesAssumption DEF ResolutionTypeOK
<1>1. CASE ReadLog
  BY <1>1 DEF ReadLog, files, history
<1>2. CASE Conclude
  BY <1>2 DEF Conclude, files, history
<1>3. CASE Serve
  <2>1. PICK route \in Routes :
          served' = served \cup {[route |-> route, at |-> now,
                                  failed |-> flag /\ route \in Failing]}
    BY <1>3 DEF Serve
  <2>2. (flag /\ route \in Failing) \in BOOLEAN
    OBVIOUS
  <2>3. [route |-> route, at |-> now, failed |-> flag /\ route \in Failing] \in Answer
    BY <2>2 DEF Answer
  <2> QED
    BY <1>3, <2>1, <2>3 DEF Serve, files, history
<1>4. CASE LogLine
  BY <1>4 DEF LogLine, files, history, Answer, Line
<1>5. CASE StrayLine
  BY <1>5 DEF StrayLine, files, history, Line
<1>6. CASE Restart
  BY <1>6 DEF Restart, files, history
<1>7. CASE BadWrite
  BY <1>7 DEF BadWrite, BadCommits, Commit, NoFix, files, history
<1>8. CASE BadTouch
  BY <1>8 DEF BadTouch, files, history
<1>9. CASE FixUnlink
  BY <1>9 DEF FixUnlink, files, history
<1>10. CASE FixWrite
  BY <1>10 DEF FixWrite, WithFix, Commit, files, history
<1>11. CASE ResetUnlink
  BY <1>11 DEF ResetUnlink, NoFix, files, history
<1>12. CASE ResetFiles
  BY <1>12 DEF ResetFiles, files, history
<1>13. CASE Killed
  BY <1>13 DEF Killed, NoFix, files, history
<1>14. CASE StartRun
  BY <1>14 DEF StartRun, Run, files, history
<1>15. CASE EndRun
  <2>1. Len(runs) \in 1..Len(runs)
    BY <1>15 DEF EndRun, Ended
  <2> QED
    BY <1>15, <2>1, EndRunTyped DEF EndRun, files, history
<1>16. CASE Tick
  BY <1>16 DEF Tick, files, history
<1>17. CASE UNCHANGED vars
  BY <1>17 DEF vars
<1> QED
  BY <1>1, <1>2, <1>3, <1>4, <1>5, <1>6, <1>7, <1>8, <1>9, <1>10, <1>11,
     <1>12, <1>13, <1>14, <1>15, <1>16, <1>17 DEF Next

(* Type correctness: every variable of Resolution stays in its type.         *)
THEOREM ResolutionTypeCorrect == Spec => []ResolutionTypeOK
BY ResolutionTypeInit, ResolutionTypeStep, PTL DEF Spec

-----------------------------------------------------------------------------
(* The inductive invariant.  Whatever a line of the log says was decided     *)
(* before it was stamped, at most Latency earlier: a healthy line of a route *)
(* that needs the token is older than the break, give or take the latency.   *)

(* The deploy log holds at most one commit of each script, so it has a       *)
(* latest one.                                                               *)
OneEach(commits) == \A c, d \in commits : c.sha = d.sha => c = d

(* The marker was touched, in the past.                                      *)
BreakKnown == (flag => broken \in Int) /\ (broken \in Int => broken <= now)

AnswerSound(a) ==
  /\ a.at <= now /\ now <= a.at + Latency
  /\ a.failed => a.route \in Failing
  /\ ~a.failed /\ a.route \in Failing /\ flag => broken >= a.at

LineSound(x) ==
  /\ x.ts <= now
  /\ x.failed => x.route \in Failing \cup {NoRoute}
  /\ ~x.failed /\ x.route \in Failing /\ flag => broken + Latency >= x.ts

Sound ==
  /\ BreakKnown
  /\ \A a \in served : AnswerSound(a)
  /\ \A x \in log : LineSound(x)
  /\ \A r \in reading : \A x \in r.lines : LineSound(x)

ResolutionInv == ResolutionTypeOK /\ OneEach(deploys) /\ Sound

(* With one commit of each script the boundary is a moment.                  *)
LEMMA BoundaryTyped ==
  ASSUME NEW commits \in SUBSET Commit, OneEach(commits), NEW run \in Run
  PROVE  FixBoundary(commits, run) \in Int
<1> DEFINE later == {c.ts : c \in {d \in commits : d.ts > run.started}}
<1>1. CASE later = {}
  BY <1>1 DEF FixBoundary, Run
<1>2. CASE later # {}
  <2>1. PICK c \in commits : c.ts \in later
    BY <1>2
  <2>2. \E t \in later : \A u \in later : t >= u
    <3>1. CASE \A u \in later : c.ts >= u
      BY <2>1, <3>1
    <3>2. CASE \E u \in later : ~(c.ts >= u)
      <4>1. PICK d \in commits : d.ts \in later /\ ~(c.ts >= d.ts)
        BY <3>2
      <4>2. c.sha # d.sha
        BY <4>1 DEF OneEach, Commit
      <4>3. \A e \in commits : e = c \/ e = d
        BY <4>2 DEF OneEach, Commit
      <4>4. \A u \in later : d.ts >= u
        BY <4>1, <4>3 DEF Commit
      <4> QED
        BY <4>1, <4>4
    <3> QED
      BY <3>1, <3>2
  <2>3. later \subseteq Int
    BY DEF Commit
  <2>4. (CHOOSE t \in later : \A u \in later : t >= u) \in Int
    BY <2>2, <2>3
  <2> QED
    BY <1>2, <2>4 DEF FixBoundary
<1> QED
  BY <1>1, <1>2

(* A recovered verdict rests on a healthy line, inside the window, of a      *)
(* named route that failed before it.                                        *)
LEMMA RecoveredIsConfirmed ==
  ASSUME NEW lines, NEW t, Verdict(lines, t) = "recovered"
  PROVE  \E x \in lines, y \in lines :
           /\ y.failed /\ y.route # NoRoute
           /\ x.route = y.route /\ x.ts >= t /\ ~x.failed
<1>1. /\ Errors(Pre(lines, t)) # {}
      /\ Residual(lines, t) = {} /\ Unconfirmed(lines, t) = {}
  BY DEF Verdict
<1>2. PICK e \in Errors(Pre(lines, t)) : e \in Recovered(lines, t)
  BY <1>1 DEF Unconfirmed
<1>3. PICK y \in lines : y.failed /\ y.route = e
  BY <1>2 DEF Errors, RoutesOf, Pre
<1>4. e # NoRoute /\ e \in RoutesOf(Post(lines, t)) /\ e \notin Errors(Post(lines, t))
  BY <1>2 DEF Recovered
<1>5. PICK x \in lines : x.ts >= t /\ x.route = e
  BY <1>4 DEF RoutesOf, Post
<1>6. ~x.failed
  BY <1>4, <1>5 DEF Errors, RoutesOf, Post
<1> QED
  BY <1>3, <1>4, <1>5, <1>6

(* Every moment verify_resolution may take for the boundary is one.          *)
LEMMA BoundariesTyped ==
  ASSUME ResolutionInv, NEW run \in Run
  PROVE  Boundaries(run) \subseteq Int
<1>1. \A commits \in Readable : commits \in SUBSET Commit /\ OneEach(commits)
  BY DEF ResolutionInv, ResolutionTypeOK, Readable, OneEach
<1>2. \A commits \in Readable : FixBoundary(commits, run) \in Int
  BY <1>1, BoundaryTyped
<1> QED
  BY <1>2, TimesAssumption DEF Boundaries

LEMMA ResolutionInvInit == Init => ResolutionInv
<1> SUFFICES ASSUME Init PROVE ResolutionInv
  OBVIOUS
<1>1. ResolutionTypeOK
  BY ResolutionTypeInit
<1> QED
  BY <1>1, TimesAssumption DEF Init, ResolutionInv, Sound, OneEach, BreakKnown

(* One step keeps what the invariant says of every answer and line.          *)
LEMMA SoundStep ==
  ASSUME ResolutionInv, [Next]_vars
  PROVE  Sound'
<1> USE RoutesAssumption, TimesAssumption DEF ResolutionInv, ResolutionTypeOK, Sound
<1>1. CASE ReadLog
  BY <1>1 DEF ReadLog, files, history, BreakKnown, AnswerSound, LineSound, Answer, Line
<1>2. CASE Conclude
  BY <1>2 DEF Conclude, files, history, BreakKnown, AnswerSound, LineSound, Answer, Line
<1>3. CASE Serve
  <2>1. PICK route \in Routes :
          served' = served \cup {[route |-> route, at |-> now,
                                  failed |-> flag /\ route \in Failing]}
    BY <1>3 DEF Serve
  <2>2. UNCHANGED <<now, flag, broken, log, reading>>
    BY <1>3 DEF Serve, files, history
  <2>3. PICK failed \in BOOLEAN : failed = (flag /\ route \in Failing)
    OBVIOUS
  <2>4. \A a : a = [route |-> route, at |-> now, failed |-> failed] => AnswerSound(a)'
    <3> SUFFICES ASSUME NEW a, a = [route |-> route, at |-> now, failed |-> failed]
                 PROVE  AnswerSound(a)'
      OBVIOUS
    <3>1. a.route = route /\ a.at = now /\ a.failed = failed
      OBVIOUS
    <3>2. a.at <= now' /\ now' <= a.at + Latency
      BY <2>2, <3>1
    <3>3. a.failed => a.route \in Failing
      BY <2>3, <3>1, Zenon
    <3>4. ~(~a.failed /\ a.route \in Failing /\ flag')
      BY <2>2, <2>3, <3>1, Zenon
    <3> QED
      BY <3>2, <3>3, <3>4, Zenon DEF AnswerSound
  <2>5. \A a \in Answer : AnswerSound(a) => AnswerSound(a)'
    BY <2>2 DEF AnswerSound
  <2>6. \A a \in served' : AnswerSound(a)'
    BY <2>1, <2>3, <2>4, <2>5
  <2>7. \A x \in Line : LineSound(x) => LineSound(x)'
    BY <2>2 DEF LineSound
  <2> QED
    BY <2>2, <2>6, <2>7 DEF BreakKnown
<1>4. CASE LogLine
  <2> DEFINE line(a) == [route |-> a.route, ts |-> now, failed |-> a.failed]
  <2>1. PICK a \in served : log' = log \cup {line(a)} /\ served' = served \ {a}
    BY <1>4 DEF LogLine
  <2>2. UNCHANGED <<now, flag, broken, reading>>
    BY <1>4 DEF LogLine, history
  <2>3. ASSUME NEW x, x = line(a) PROVE LineSound(x)'
    BY <2>1, <2>2, <2>3 DEF LineSound, AnswerSound, Answer, BreakKnown
  <2>4. \A x \in Line : LineSound(x) => LineSound(x)'
    BY <2>2 DEF LineSound
  <2>5. \A b \in Answer : AnswerSound(b) => AnswerSound(b)'
    BY <2>2 DEF AnswerSound
  <2>6. \A x \in log' : LineSound(x)'
    BY <2>1, <2>3, <2>4
  <2>7. \A r \in reading' : \A x \in r.lines : LineSound(x)'
    BY <2>2, <2>4
  <2> QED
    BY <2>1, <2>2, <2>5, <2>6, <2>7 DEF BreakKnown
<1>5. CASE StrayLine
  BY <1>5 DEF StrayLine, files, history, BreakKnown, AnswerSound, LineSound, Answer, Line
<1>6. CASE Restart
  BY <1>6 DEF Restart, files, history, BreakKnown, AnswerSound, LineSound, Answer, Line
<1>7. CASE BadWrite
  BY <1>7 DEF BadWrite, files, history, BreakKnown, AnswerSound, LineSound, Answer, Line
<1>8. CASE BadTouch
  BY <1>8 DEF BadTouch, files, history, BreakKnown, AnswerSound, LineSound, Answer, Line
<1>9. CASE FixUnlink
  BY <1>9 DEF FixUnlink, files, history, BreakKnown, AnswerSound, LineSound, Answer, Line
<1>10. CASE FixWrite
  BY <1>10 DEF FixWrite, files, history, BreakKnown, AnswerSound, LineSound, Answer, Line
<1>11. CASE ResetUnlink
  BY <1>11 DEF ResetUnlink, files, history, BreakKnown, AnswerSound, LineSound, Answer, Line
<1>12. CASE ResetFiles
  BY <1>12 DEF ResetFiles, files, history, BreakKnown, AnswerSound, LineSound, Answer, Line
<1>13. CASE Killed
  BY <1>13 DEF Killed, files, history, BreakKnown, AnswerSound, LineSound, Answer, Line
<1>14. CASE StartRun
  BY <1>14 DEF StartRun, files, history, BreakKnown, AnswerSound, LineSound, Answer, Line
<1>15. CASE EndRun
  BY <1>15 DEF EndRun, files, history, BreakKnown, AnswerSound, LineSound, Answer, Line
<1>16. CASE Tick
  BY <1>16 DEF Tick, files, history, BreakKnown, AnswerSound, LineSound, Answer, Line
<1>17. CASE UNCHANGED vars
  BY <1>17 DEF vars, BreakKnown, AnswerSound, LineSound
<1> QED
  BY <1>1, <1>2, <1>3, <1>4, <1>5, <1>6, <1>7, <1>8, <1>9,
     <1>10, <1>11, <1>12, <1>13, <1>14, <1>15, <1>16, <1>17 DEF Next

LEMMA ResolutionInvStep ==
  ASSUME ResolutionInv, [Next]_vars
  PROVE  ResolutionInv'
<1>1. ResolutionTypeOK'
  BY ResolutionTypeStep DEF ResolutionInv
<1>2. OneEach(deploys)'
  BY DEF ResolutionInv, Next, vars, files, history, OneEach, ReadLog, Conclude, Serve,
     LogLine, StrayLine, Restart, BadWrite, BadCommits, BadTouch, FixUnlink, FixWrite,
     WithFix, ResetUnlink, ResetFiles, Killed, StartRun, EndRun, Tick
<1> QED
  BY <1>1, <1>2, SoundStep DEF ResolutionInv

(* A healthy line inside the window, of a route that failed and so needs the *)
(* token, is at most Latency younger than the break: the break is no older.  *)
LEMMA InvHealed == ResolutionInv => RecoveredIsHealed
<1> SUFFICES ASSUME ResolutionInv, NEW r \in reading, NEW t \in Boundaries(r.run),
                    Verdict(r.lines, t) = "recovered", flag
             PROVE  broken + Latency >= t
  BY DEF RecoveredIsHealed
<1>1. r.run \in Run /\ r.lines \subseteq Line /\ broken \in Int
  BY DEF ResolutionInv, ResolutionTypeOK, Sound, BreakKnown
<1>2. t \in Int
  BY <1>1, BoundariesTyped
<1>3. PICK x \in r.lines, y \in r.lines :
        /\ y.failed /\ y.route # NoRoute
        /\ x.route = y.route /\ x.ts >= t /\ ~x.failed
  BY RecoveredIsConfirmed
<1>4. x.route \in Failing
  BY <1>3 DEF ResolutionInv, Sound, LineSound
<1>5. broken + Latency >= x.ts
  BY <1>3, <1>4 DEF ResolutionInv, Sound, LineSound
<1> QED
  BY <1>1, <1>2, <1>3, <1>5, TimesAssumption DEF Line

(* Soundness of the verdict (resolution.py 184-226): `recovered` reported of *)
(* a broken service means that it broke after the window opened, or at most  *)
(* Latency before.                                                           *)
THEOREM VerdictIsSound == Spec => []RecoveredIsHealed
BY ResolutionInvInit, ResolutionInvStep, InvHealed, PTL DEF Spec

-----------------------------------------------------------------------------
(* Completeness: the fix that healed the service is the latest commit of the *)
(* deploy log, so the window opens with it.  fix_deploy appends its commit   *)
(* only where there is none yet; there is none, because what broke the       *)
(* service rewrote the deploy log.                                           *)

NoFixCommit == \A c \in deploys : c.sha # "fix"

Unfinished == fix.unlinked # NoTime /\ fix.done = NoTime

FixInv ==
  /\ flag \/ script = "bad_touch" => NoFixCommit
  /\ script = "fix_write" => ~flag
  /\ script = "reset_files" => fix.done = NoTime
  /\ \A c \in deploys : c.ts <= now
  /\ fix.unlinked = NoTime => fix.done = NoTime
  /\ Unfinished => script = "fix_write" /\ NoFixCommit /\ fix.unlinked <= now
  /\ fix.done # NoTime =>
       /\ fix.unlinked <= fix.done
       /\ \E c \in deploys : c.sha = "fix" /\ c.ts = fix.done
       /\ \A c \in deploys : c.ts <= fix.done

LEMMA FixInvInit == Init => FixInv
  BY TimesAssumption DEF Init, FixInv, NoFix, NoFixCommit, Unfinished

LEMMA FixInvStep ==
  ASSUME ResolutionTypeOK, FixInv, [Next]_vars
  PROVE  FixInv'
<1> USE TimesAssumption DEF ResolutionTypeOK, FixInv, NoFixCommit, Unfinished
<1>1. CASE \/ ReadLog \/ Conclude \/ Serve \/ LogLine \/ StrayLine \/ Restart
           \/ StartRun \/ EndRun \/ UNCHANGED vars
  <2>1. UNCHANGED <<now, flag, deploys, script, fix>>
    BY <1>1
       DEF ReadLog, Conclude, Serve, LogLine, StrayLine, Restart, StartRun, EndRun,
           vars, files, history
  <2> QED
    BY <2>1
<1>2. CASE BadWrite
  BY <1>2 DEF BadWrite, BadCommits, NoFix
<1>3. CASE BadTouch
  BY <1>3 DEF BadTouch
<1>4. CASE FixUnlink
  BY <1>4 DEF FixUnlink, Commit
<1>5. CASE FixWrite
  <2>1. /\ script = "fix_write" /\ script' = "idle" /\ UNCHANGED <<now, flag>>
        /\ ~flag /\ fix \in [unlinked : Int \cup {NoTime}, done : Int \cup {NoTime}]
    BY <1>5 DEF FixWrite
  <2>2. CASE Unfinished
    <3>1. deploys' = deploys \cup {[sha |-> "fix", ts |-> now]}
      BY <1>5, <2>2 DEF FixWrite, WithFix
    <3>2. fix'.unlinked = fix.unlinked /\ fix'.done = now
      BY <1>5, <2>1, <2>2 DEF FixWrite
    <3>3. [sha |-> "fix", ts |-> now] \in deploys'
      BY ONLY <3>1
    <3>4. \A c \in deploys' : c.ts <= now
      BY <3>1
    <3> QED
      BY <2>1, <2>2, <3>2, <3>3, <3>4
  <2>3. CASE ~Unfinished
    <3>1. fix' = fix
      BY <1>5, <2>3 DEF FixWrite
    <3>2. CASE fix.done = NoTime
      <4>1. \A c \in deploys' : c.ts <= now
        BY <1>5 DEF FixWrite, WithFix
      <4> QED
        BY <2>1, <2>3, <3>1, <3>2, <4>1
    <3>3. CASE fix.done # NoTime
      BY <1>5, <2>1, <3>1, <3>3 DEF FixWrite, WithFix
    <3> QED
      BY <3>2, <3>3
  <2> QED
    BY <2>2, <2>3
<1>6. CASE ResetUnlink
  BY <1>6 DEF ResetUnlink, NoFix
<1>7. CASE ResetFiles
  BY <1>7 DEF ResetFiles, history
<1>8. CASE Killed
  BY <1>8 DEF Killed, NoFix, files
<1>9. CASE Tick
  BY <1>9 DEF Tick, files, history, Commit
<1> QED
  BY <1>1, <1>2, <1>3, <1>4, <1>5, <1>6, <1>7, <1>8, <1>9 DEF Next

(* The latest commit after the run started is the boundary.                  *)
LEMMA LatestIsBoundary ==
  ASSUME NEW commits \in SUBSET Commit, NEW run, run.started \in Int,
         NEW c \in commits, c.ts > run.started, \A d \in commits : d.ts <= c.ts
  PROVE  FixBoundary(commits, run) = c.ts
<1> DEFINE later == {d.ts : d \in {e \in commits : e.ts > run.started}}
<1>1. c.ts \in later /\ \A u \in later : u \in Int /\ c.ts >= u
  BY DEF Commit
<1>2. \A t \in later : (\A u \in later : t >= u) => t = c.ts
  BY <1>1
<1>3. (CHOOSE t \in later : \A u \in later : t >= u) = c.ts
  BY ONLY <1>1, <1>2
<1> QED
  BY <1>1, <1>3 DEF FixBoundary

(* Failures before a moment, all of named routes, and traffic of each of     *)
(* those routes from that moment on: recovered.                              *)
LEMMA QuietIsRecovered ==
  ASSUME NEW lines \in SUBSET Line, NEW t \in Int,
         \E r \in lines : r.failed,
         \A r \in lines : r.failed => r.ts < t /\ r.route # NoRoute,
         \A r \in lines : r.failed =>
           \E x \in lines : x.route = r.route /\ x.ts >= t
  PROVE  Verdict(lines, t) = "recovered"
<1>1. Errors(Post(lines, t)) = {}
  BY DEF Errors, RoutesOf, Post, Line
<1>2. Errors(Pre(lines, t)) # {}
  BY DEF Errors, RoutesOf, Pre
<1>3. \A e \in Errors(Pre(lines, t)) : e \in Recovered(lines, t)
  <2> SUFFICES ASSUME NEW e \in Errors(Pre(lines, t))  PROVE e \in Recovered(lines, t)
    OBVIOUS
  <2>1. PICK r \in lines : r.failed /\ r.route = e
    BY DEF Errors, RoutesOf, Pre
  <2>2. e # NoRoute /\ e \in RoutesOf(Post(lines, t))
    BY <2>1 DEF RoutesOf, Post
  <2> QED
    BY <1>1, <2>2 DEF Recovered
<1>4. Residual(lines, t) = {} /\ Unconfirmed(lines, t) = {}
  BY <1>1, <1>3 DEF Residual, Unconfirmed
<1> QED
  BY <1>2, <1>4 DEF Verdict

LEMMA InvObserved == ResolutionTypeOK /\ FixInv => FixIsObserved
<1> SUFFICES ASSUME ResolutionTypeOK, FixInv, Len(runs) > 0, fix.done # NoTime,
                    runs[Len(runs)].started < fix.unlinked,
                    \E r \in log : r.failed,
                    \A r \in log : r.failed => r.ts < fix.unlinked /\ r.route # NoRoute,
                    \A r \in log : r.failed =>
                      \E x \in log : x.route = r.route /\ x.ts >= fix.done
             PROVE  Verdict(log, FixBoundary(deploys, runs[Len(runs)])) = "recovered"
  BY DEF FixIsObserved
<1>1. /\ fix.unlinked \in Int /\ fix.done \in Int /\ fix.unlinked <= fix.done
      /\ runs[Len(runs)].started \in Int /\ log \subseteq Line /\ deploys \subseteq Commit
  <2>1. runs[Len(runs)] \in Run
    BY DEF ResolutionTypeOK
  <2>2. fix.unlinked # NoTime /\ fix.unlinked <= fix.done
    BY DEF FixInv
  <2> QED
    BY <2>1, <2>2 DEF ResolutionTypeOK, Run
<1>2. PICK c \in deploys : c.ts = fix.done /\ \A d \in deploys : d.ts <= c.ts
  BY DEF FixInv
<1>3. FixBoundary(deploys, runs[Len(runs)]) = fix.done
  BY <1>1, <1>2, LatestIsBoundary
<1>4. \A r \in log : r.failed => r.ts < fix.done
  BY <1>1 DEF Line
<1>5. Verdict(log, fix.done) = "recovered"
  BY <1>1, <1>4, QuietIsRecovered
<1> QED
  BY <1>3, <1>5

(* Completeness of the verdict (resolution.py 101-112, fix_deploy.py 30-61): *)
(* once fix_deploy has healed the service, healthy traffic on every route    *)
(* that failed before is recognised as recovery, whatever scripts ran and    *)
(* were stopped half-way before.                                             *)
THEOREM FixesAreObserved == Spec => []FixIsObserved
<1>1. Spec => []ResolutionTypeOK
  BY ResolutionTypeCorrect
<1> QED
  BY <1>1, FixInvInit, FixInvStep, InvObserved, PTL DEF Spec
=============================================================================
