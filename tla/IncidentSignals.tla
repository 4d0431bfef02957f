--------------------------- MODULE IncidentSignals ---------------------------
(***************************************************************************)
(* The data an investigation works on and the pure functions over it:      *)
(* ids at ingest (ingest/), the filters behind the tools (servers/,        *)
(* tools_factory.py), the schema of a diagnosis, the citation check, the   *)
(* timing check and the keyless judge of the evaluation.                   *)
(*                                                                         *)
(* A timestamp is a number and 0 stands for one that is missing or does    *)
(* not parse.  A log row has an id, a timestamp, a level and a route; a    *)
(* commit a sha and a timestamp; a metric series its name and its points,  *)
(* each with a timestamp.  A hypothesis is the set of handles it cites.    *)
(***************************************************************************)
EXTENDS Integers, Sequences, FiniteSets, SequencesExt

NoId == -1                     \* a raw log row without a usable int id

-----------------------------------------------------------------------------
(* Ingest.                                                                 *)

(* Slip: the counter only counts the ids it gave out itself.               *)
AssignedIdsUnaware(raw) ==
  [n \in DOMAIN raw |->
     IF raw[n].id # NoId THEN raw[n].id
     ELSE Cardinality({k \in 1..(n - 1) : raw[k].id = NoId})]

(* normalize_log_rows: an int id is kept; a row without one gets the next  *)
(* id, which is ahead of every id before it in the file.                   *)
AssignedIds(raw) ==
  LET id[n \in DOMAIN raw] ==
        IF raw[n].id # NoId THEN raw[n].id
        ELSE Max({0} \cup {id[k] + 1 : k \in 1..(n - 1)})
  IN  id

NormalizeLogRows(raw) ==
  [n \in DOMAIN raw |-> [raw[n] EXCEPT !.id = AssignedIds(raw)[n]]]

(* The elements of S in the order Before, a total one: the n-th has n - 1   *)
(* before it.                                                              *)
InOrder(S, Before(_, _)) ==
  [n \in 1..Cardinality(S) |->
     CHOOSE i \in S : Cardinality({j \in S : Before(j, i)}) = n - 1]

(* The elements at the positions S of a sequence: a list comprehension.     *)
Picked(s, S) ==
  LET order == InOrder(S, LAMBDA i, j : i < j)
  IN  [n \in DOMAIN order |-> s[order[n]]]

(* The rows at the positions S of a sequence in the order of time, or with *)
(* sign -1 the newest first; ties in source order, as Python's sort leaves *)
(* them.                                                                   *)
Sorted(s, S, sign) ==
  LET order == InOrder(S, LAMBDA i, j : \/ sign * s[i].ts < sign * s[j].ts
                                        \/ s[i].ts = s[j].ts /\ i < j)
  IN  [n \in DOMAIN order |-> s[order[n]]]

(* read_log_source: a file as it is; a directory as one stream without the *)
(* ids of its files, in the order of time, numbered from 0.                *)
ReadLogSource(src) ==
  IF ~ src.directory THEN NormalizeLogRows(src.files[1])
  ELSE LET raw    == FlattenSeq(src.files)
           sorted == Sorted(raw, DOMAIN raw, 1)
       IN  [n \in DOMAIN sorted |-> [sorted[n] EXCEPT !.id = n - 1]]

(* _ingest of the command line: what the readers make of a source is        *)
(* written to canonical files, which are the source from then on.           *)
Ingested(src) ==
  [src EXCEPT !.directory = FALSE, !.files = <<ReadLogSource(src)>>]

(* What the readers make of a source now: every row, without a cap.        *)
SignalsOf(src) ==
  [logs |-> ReadLogSource(src), commits |-> src.commits, metrics |-> src.metrics]

-----------------------------------------------------------------------------
(* Tools.  Arguments are keyword arguments: a function on the names given. *)

Parameters == [query_logs         |-> {"since", "level", "route"},
               get_recent_commits |-> {"since", "limit"},
               query_metrics      |-> {"name", "since"}]

ToolNames == DOMAIN Parameters

Given(args, name) == name \in DOMAIN args

(* What makes a tool raise: a keyword it does not have, a `since' that is  *)
(* not canonical, a negative limit.                                        *)
ArgumentsRaise(tool, args) ==
  \/ ~ (DOMAIN args \subseteq Parameters[tool])
  \/ Given(args, "since") /\ args.since = 0
  \/ Given(args, "limit") /\ args.limit < 0

FilterLogRows(rows, args) ==
  Picked(rows, {n \in DOMAIN rows :
                  /\ Given(args, "since") => rows[n].ts >= args.since
                  /\ Given(args, "level") => rows[n].level = args.level
                  /\ Given(args, "route") => rows[n].route = args.route})

(* The most recent `cap' rows, in source order; 0 is no cap.               *)
LastRows(rows, cap) ==
  IF cap > 0 /\ Len(rows) > cap THEN SubSeq(rows, Len(rows) - cap + 1, Len(rows))
  ELSE rows

RecentCommits(commits, args) ==
  LET kept   == {i \in DOMAIN commits :
                   Given(args, "since") => commits[i].ts >= args.since}
      newest == Sorted(commits, kept, -1)
  IN  IF Given(args, "limit") /\ args.limit < Len(newest)
      THEN SubSeq(newest, 1, args.limit) ELSE newest

(* A series keeps its points since then, and its name in any case.         *)
Trimmed(m, args) ==
  IF Given(args, "since")
  THEN [m EXCEPT !.points = Picked(@, {n \in DOMAIN @ : @[n].ts >= args.since})]
  ELSE m

FilterMetricRows(metrics, args) ==
  LET kept == Picked(metrics, {n \in DOMAIN metrics :
                                 Given(args, "name") => metrics[n].metric = args.name})
  IN  [n \in DOMAIN kept |-> Trimmed(kept[n], args)]

(* Slip: a result is numbered by position.                                 *)
ToolRowsRenumbered(tool, args, signals, cap) ==
  CASE tool = "query_logs" ->
         LET rows == LastRows(FilterLogRows(signals.logs, args), cap)
         IN  [n \in DOMAIN rows |-> [rows[n] EXCEPT !.id = n - 1]]
    [] tool = "get_recent_commits" -> RecentCommits(signals.commits, args)
    [] tool = "query_metrics"      -> FilterMetricRows(signals.metrics, args)

(* incident_tools, scenario_tools: what a tool that does not raise returns. *)
ToolRows(tool, args, signals, cap) ==
  CASE tool = "query_logs" -> LastRows(FilterLogRows(signals.logs, args), cap)
    [] tool = "get_recent_commits" -> RecentCommits(signals.commits, args)
    [] tool = "query_metrics"      -> FilterMetricRows(signals.metrics, args)

-----------------------------------------------------------------------------
(* Handles and the citation check.                                         *)

(* The handle a row is cited by (_record_seen, which takes every key a row *)
(* has; no row the readers give has two of them).                          *)
HandleOf(row) ==
  CASE "metric" \in DOMAIN row -> <<"metric", row.metric>>
    [] "id" \in DOMAIN row     -> <<"log", row.id>>
    [] OTHER                   -> <<"commit", row.sha>>

HandlesIn(rows) == {HandleOf(rows[n]) : n \in DOMAIN rows}

(* real_signal_handles: all a diagnosis may cite.                          *)
RealHandles(signals) ==
  HandlesIn(signals.logs) \cup HandlesIn(signals.commits)
    \cup HandlesIn(signals.metrics)

Cited(d) == UNION {d.hyps[n] : n \in DOMAIN d.hyps}

(* check_fabrication: cited and not real.                                  *)
Fabricated(d, signals) == Cited(d) \ RealHandles(signals)

-----------------------------------------------------------------------------
(* Diagnoses.                                                              *)

(* Reasons of an abstention: none, the model's own, or written by the      *)
(* loop, the verifier or the timing check.                                 *)
Reasons == {"", "model", "not run", "exhausted", "verifier", "timing"}

(* FALLBACK_ABSTENTION_PREFIXES.                                           *)
FallbackReasons == {"not run", "exhausted"}

Abstain(reason) == [abstained |-> TRUE, reason |-> reason, hyps |-> <<>>]

(* The validators of Hypothesis and Diagnosis.                             *)
Valid(d) ==
  /\ \A n \in DOMAIN d.hyps : d.hyps[n] # {}
  /\ d.abstained  => d.reason # "" /\ d.hyps = <<>>
  /\ ~d.abstained => d.hyps # <<>>

(* _timing_objection: there is a dated error, a dated commit is cited, and *)
(* every one that is comes strictly after the first error.                 *)
TimingObjection(hyp, signals) ==
  LET errors == {signals.logs[n].ts : n \in {k \in DOMAIN signals.logs :
                   signals.logs[k].level = "ERROR" /\ signals.logs[k].ts > 0}}
      dated  == {signals.commits[n].ts : n \in {k \in DOMAIN signals.commits :
                   /\ HandleOf(signals.commits[k]) \in hyp
                   /\ signals.commits[k].ts > 0}}
  IN  /\ errors # {} /\ dated # {}
      /\ \A t \in dated : t > Min(errors)

(* Slip: what it keeps is turned round.                                    *)
VerifyTimingUnordered(d, signals) ==
  IF d.abstained THEN d
  ELSE LET hyps == Reverse(d.hyps)
           kept == Picked(hyps, {n \in DOMAIN hyps :
                                   ~ TimingObjection(hyps[n], signals)})
       IN  IF kept # <<>> THEN [d EXCEPT !.hyps = kept, !.reason = ""]
           ELSE Abstain("timing")

(* verify_timing.                                                          *)
VerifyTiming(d, signals) ==
  IF d.abstained THEN d
  ELSE LET kept == Picked(d.hyps, {n \in DOMAIN d.hyps :
                                     ~ TimingObjection(d.hyps[n], signals)})
       IN  IF kept # <<>> THEN [d EXCEPT !.hyps = kept, !.reason = ""]
           ELSE Abstain("timing")

(* judge: the first hypothesis cites every gold commit, and all gold       *)
(* handles are cited.                                                      *)
Judged(d, gold) ==
  LET shas == {h \in gold : h[1] = "commit"}
  IN  /\ ~ d.abstained
      /\ shas # {} /\ shas \subseteq d.hyps[1]
      /\ gold \subseteq Cited(d)
=============================================================================
