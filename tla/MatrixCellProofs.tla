-------------------------- MODULE MatrixCellProofs --------------------------
(***************************************************************************)
(* What a cell's directory and its row of the report can be trusted for,   *)
(* for any number of scenarios and passes, any command lines and any       *)
(* number of runs, killed or not, into one directory: the row is honest,   *)
(* the files are of one run, every call is charged once, and the totals    *)
(* are those of the files.                                                 *)
(***************************************************************************)
EXTENDS MatrixCell, FiniteSetTheorems, SequenceTheorems, WellFoundedInduction,
        TLAPS

(* A summary is complete, is of this run, and names the reasoner.           *)
LEMMA SummaryComplete ==
  /\ Complete(Summary) /\ ~ Complete(Absent) /\ ~ Complete(Torn)
  /\ Summary.run = starts /\ Summary.args = args /\ Summary.model = Reasoner(args)
BY DEF Summary, Complete, Absent, Torn

-----------------------------------------------------------------------------
(* The row.                                                                *)

ArgumentsChecked == phase # "idle" => args \in Arguments /\ ~ ConfigError(args)

SummaryChecked(c) ==
  c.args \in Arguments /\ ~ ConfigError(c.args) /\ c.model = Reasoner(c.args)

ReportInv ==
  /\ ArgumentsChecked
  /\ Complete(cell) => SummaryChecked(cell)
  /\ row = <<>> \/ \E c : SummaryChecked(c) /\ row = <<Row(c)>>

LEMMA ReportInvStep ==
  ASSUME ReportInv, [Next]_vars
  PROVE  ReportInv'
<1> USE DEF ReportInv, ArgumentsChecked, SummaryChecked, files, process
<1>1. CASE Refuse
  BY <1>1 DEF Refuse
<1>2. CASE Start
  BY <1>2 DEF Start
<1>3. CASE ClearCell
  BY <1>3, SummaryComplete DEF ClearCell
<1>4. CASE ClearPass
  BY <1>4 DEF ClearPass
<1>5. CASE OpenPass
  BY <1>5 DEF OpenPass
<1>6. CASE ScenarioEnds
  BY <1>6 DEF ScenarioEnds
<1>7. CASE ScenarioRaises
  BY <1>7 DEF ScenarioRaises
<1>8. CASE PassEnds
  BY <1>8 DEF PassEnds
<1>9. CASE CellOpened
  BY <1>9, SummaryComplete DEF CellOpened
<1>10. CASE CellWritten
  BY <1>10, SummaryComplete DEF CellWritten
<1>11. CASE Killed
  BY <1>11 DEF Killed
<1>12. CASE Report
  BY <1>12 DEF Report
<1>13. CASE UNCHANGED vars
  BY <1>13 DEF vars
<1> QED
  BY <1>1, <1>2, <1>3, <1>4, <1>5, <1>6, <1>7, <1>8, <1>9, <1>10, <1>11, <1>12,
     <1>13 DEF Next

LEMMA ReportInvHonest == ReportInv => ReportIsHonest
<1> SUFFICES ASSUME ReportInv, row # <<>> PROVE ReportIsHonest
  BY DEF ReportIsHonest
<1>1. PICK c : SummaryChecked(c) /\ row = <<Row(c)>>
  BY DEF ReportInv
<1>2. row[1].args = c.args /\ row[1].flags = ConditionsFlag(c)
  BY <1>1 DEF Row
<1>3. c.args \in Arguments /\ c.args.passes \in Int /\ c.model = Reasoner(c.args)
  BY <1>1, ArgumentsAssumption DEF SummaryChecked
<1>4. ConditionsFlag(c) = {} =>
        /\ c.args.passes >= StandardPasses /\ c.args.maxSteps = StandardMaxSteps
        /\ ~ (c.args.verify /\ c.args.verifierModel = c.model)
  BY <1>3 DEF ConditionsFlag, StandardPasses
<1>5. c.args.verify /\ c.args.verifierModel = c.model =>
        c.args.allowSelf /\ "self-verify" \in ConditionsFlag(c)
  BY <1>1, <1>3 DEF ConditionsFlag, SummaryChecked, ConfigError
<1> QED
  BY <1>2, <1>3, <1>4, <1>5 DEF ReportIsHonest, Reasoner

(* An honest table (report.py 29-48): an unflagged row is of a run under    *)
(* the standard conditions, and a model that verified itself is flagged and *)
(* was allowed to.                                                          *)
THEOREM TableIsHonest == Spec => []ReportIsHonest
<1>1. Init => ReportInv
  BY SummaryComplete DEF Init, ReportInv, ArgumentsChecked
<1> QED
  BY <1>1, ReportInvStep, ReportInvHonest, PTL DEF Spec

-----------------------------------------------------------------------------
(* The files.  While a run is at work there is no summary and the files it   *)
(* has finished are whole; between runs there is a summary only if the last  *)
(* of them got to the end, so whatever a killed run left is not read.        *)

(* The n-th record of pass p of run `run'.                                   *)
IsRecord(r, run, p, n) == r.run = run /\ r.pass = p /\ r.scenario = n

Whole(s, run, p) ==
  /\ Len(s) = ScenarioCount
  /\ \A n \in 1..ScenarioCount : IsRecord(s[n], run, p, n)

RecordsSoFar ==
  /\ \E S : records \in Seq(S)
  /\ Len(records) <= ScenarioCount
  /\ \A n \in 1..Len(records) : IsRecord(records[n], starts, PassIndex, n)

Finished == \A p \in 1..Len(perPass) : Whole(passFile[p], starts, p)

InPass ==
  /\ RecordsSoFar
  /\ DOMAIN passFile = 1..PassIndex /\ passFile[PassIndex] = records

DirectoryInv ==
  /\ \E S : perPass \in Seq(S)
  /\ phase \in {"idle", "clear", "stale", "pass", "summed", "writing"}
  /\ phase \notin {"idle", "clear"} => ~ Complete(cell)
  /\ phase \in {"clear", "stale"} => perPass = <<>>
  /\ phase \in {"pass", "summed", "writing"} => Finished
  /\ phase = "pass" => InPass
  /\ phase \in {"summed", "writing"} => DOMAIN passFile = 1..Len(perPass)
  /\ phase = "writing" => Len(perPass) = args.passes
  /\ FilesAreItsRun

(* A run that writes nothing any more leaves the files as they are.          *)
LEMMA OutsideAPass ==
  ASSUME DirectoryInv,
         \/ Refuse \/ Start \/ ClearCell \/ ScenarioRaises \/ Killed \/ Report
         \/ UNCHANGED vars
  PROVE  DirectoryInv'
<1> USE SummaryComplete
    DEF DirectoryInv, Finished, InPass, RecordsSoFar, FilesAreItsRun, PassIndex, files,
        process
<1>1. CASE Refuse
  BY <1>1 DEF Refuse
<1>2. CASE Start
  <2>1. perPass' \in Seq({})
    BY <1>2 DEF Start
  <2> QED
    BY <1>2, <2>1 DEF Start
<1>3. CASE ClearCell
  BY <1>3 DEF ClearCell
<1>4. CASE ScenarioRaises
  BY <1>4 DEF ScenarioRaises
<1>5. CASE Killed
  BY <1>5 DEF Killed
<1>6. CASE Report
  BY <1>6 DEF Report
<1>7. CASE UNCHANGED vars
  BY <1>7 DEF vars
<1> QED
  BY <1>1, <1>2, <1>3, <1>4, <1>5, <1>6, <1>7

(* A new pass starts with an empty file, next to the ones that are done.     *)
LEMMA PassOpened ==
  ASSUME DirectoryInv, OpenPass
  PROVE  DirectoryInv'
<1>1. /\ Len(perPass) \in Nat /\ PassIndex = Len(perPass) + 1
      /\ DOMAIN passFile = 1..Len(perPass)
  <2>1. CASE phase = "stale"
    <3>1. perPass = <<>> /\ StalePasses = {}
      BY <2>1 DEF DirectoryInv, OpenPass
    <3> QED
      BY <3>1 DEF StalePasses, PassIndex
  <2>2. CASE phase = "summed"
    BY <2>2 DEF DirectoryInv, PassIndex
  <2> QED
    BY <2>1, <2>2 DEF OpenPass
<1>2. /\ perPass' = perPass /\ starts' = starts /\ cell' = cell /\ records' = <<>>
      /\ phase' = "pass" /\ ~ Complete(cell)
      /\ passFile' = [q \in 1..PassIndex |->
                        IF q = PassIndex THEN <<>> ELSE passFile[q]]
  <2>1. DOMAIN passFile \cup {PassIndex} = 1..PassIndex
    BY <1>1
  <2> QED
    BY <2>1 DEF OpenPass, DirectoryInv
<1>3. PassIndex' = PassIndex /\ PassIndex \in 1..PassIndex
  BY <1>1, <1>2 DEF PassIndex
<1>4. InPass'
  <2>1. records' \in Seq({}) /\ Len(records') = 0
    BY <1>2
  <2> QED
    BY <1>2, <1>3, <2>1, ScenarioCountAssumption DEF InPass, RecordsSoFar
<1>5. Finished'
  <2>1. \A p \in 1..Len(perPass) : Whole(passFile[p], starts, p)
    BY DEF DirectoryInv, OpenPass, Finished
  <2>2. \A p \in 1..Len(perPass) : passFile'[p] = passFile[p]
    BY <1>1, <1>2
  <2> QED
    BY <1>2, <2>1, <2>2 DEF Finished
<1> QED
  BY <1>2, <1>4, <1>5 DEF DirectoryInv, FilesAreItsRun

(* A record goes to the end of the pass and of its file.                     *)
LEMMA RecordWritten ==
  ASSUME DirectoryInv, ScenarioEnds
  PROVE  DirectoryInv'
<1>1. /\ phase = "pass" /\ InPass /\ Finished /\ ~ Complete(cell)
      /\ Len(perPass) \in Nat /\ PassIndex = Len(perPass) + 1
  BY DEF ScenarioEnds, DirectoryInv, PassIndex
<1>2. /\ perPass' = perPass /\ starts' = starts /\ cell' = cell /\ phase' = phase
      /\ PassIndex' = PassIndex /\ Len(records) < ScenarioCount
  BY DEF ScenarioEnds, PassIndex
<1>3. PICK record : /\ IsRecord(record, starts, PassIndex, Len(records) + 1)
                    /\ records' = Append(records, record)
                    /\ passFile' = [passFile EXCEPT ![PassIndex] = Append(@, record)]
  BY DEF ScenarioEnds, Score, ScenarioRecord, IsRecord
<1>4. PICK S : records \in Seq(S)
  BY <1>1 DEF InPass, RecordsSoFar
<1>5. /\ records' \in Seq(S \cup {record}) /\ Len(records') = Len(records) + 1
      /\ \A n \in 1..Len(records) : records'[n] = records[n]
      /\ records'[Len(records) + 1] = record /\ Len(records) \in Nat
  BY <1>3, <1>4
<1>6. InPass'
  <2>1. \A n \in 1..Len(records') : IsRecord(records'[n], starts, PassIndex, n)
    BY <1>1, <1>3, <1>5 DEF InPass, RecordsSoFar
  <2>2. DOMAIN passFile' = 1..PassIndex /\ passFile'[PassIndex] = records'
    BY <1>1, <1>3 DEF InPass
  <2> QED
    BY <1>2, <1>5, <2>1, <2>2, ScenarioCountAssumption DEF InPass, RecordsSoFar, IsRecord
<1>7. Finished'
  <2>1. \A p \in 1..Len(perPass) : passFile'[p] = passFile[p]
    BY <1>1, <1>3 DEF InPass
  <2> QED
    BY <1>1, <1>2, <2>1 DEF Finished, Whole, IsRecord
<1> QED
  BY <1>1, <1>2, <1>6, <1>7 DEF DirectoryInv, FilesAreItsRun

(* A pass that has every scenario is whole.                                  *)
LEMMA PassClosed ==
  ASSUME DirectoryInv, PassEnds
  PROVE  DirectoryInv'
<1>1. /\ InPass /\ Finished /\ ~ Complete(cell) /\ Len(records) = ScenarioCount
      /\ Len(perPass) \in Nat /\ PassIndex = Len(perPass) + 1
  BY DEF PassEnds, DirectoryInv, PassIndex
<1>2. /\ perPass' = Append(perPass, PassSummary(records)) /\ starts' = starts
      /\ cell' = cell /\ passFile' = passFile /\ phase' = "summed"
  BY DEF PassEnds, files
<1>3. PICK S : perPass \in Seq(S)
  BY DEF DirectoryInv
<1>4. /\ perPass' \in Seq(S \cup {PassSummary(records)})
      /\ Len(perPass') = Len(perPass) + 1
  BY <1>2, <1>3
<1>5. Whole(passFile[PassIndex], starts, PassIndex)
  BY <1>1 DEF InPass, RecordsSoFar, Whole
<1>6. Finished'
  <2>1. \A p \in 1..Len(perPass') : p \in 1..Len(perPass) \/ p = PassIndex
    BY <1>1, <1>4
  <2> QED
    BY <1>1, <1>2, <1>5, <2>1 DEF Finished, Whole, IsRecord
<1>7. DOMAIN passFile' = 1..Len(perPass')
  BY <1>1, <1>2, <1>4 DEF InPass
<1> QED
  BY <1>1, <1>2, <1>4, <1>6, <1>7 DEF DirectoryInv, FilesAreItsRun

LEMMA DirectoryInvStep ==
  ASSUME DirectoryInv, [Next]_vars
  PROVE  DirectoryInv'
<1>1. CASE ClearPass
  BY <1>1 DEF ClearPass, DirectoryInv, FilesAreItsRun, process
<1>2. CASE CellOpened
  BY <1>2, SummaryComplete
     DEF CellOpened, DirectoryInv, Finished, Whole, IsRecord, FilesAreItsRun, process
<1>3. CASE CellWritten
  <2>1. /\ Finished /\ DOMAIN passFile = 1..Len(perPass) /\ Len(perPass) = args.passes
        /\ \E S : perPass \in Seq(S)
    BY <1>3 DEF CellWritten, DirectoryInv
  <2>2. /\ cell' = Summary /\ phase' = "idle"
        /\ UNCHANGED <<passFile, perPass, records, starts, args>>
    BY <1>3 DEF CellWritten, process
  <2>3. FilesAreItsRun'
    BY <2>1, <2>2, SummaryComplete DEF FilesAreItsRun, Finished, Whole, IsRecord
  <2> QED
    BY <2>1, <2>2, <2>3 DEF DirectoryInv
<1> QED
  BY <1>1, <1>2, <1>3, OutsideAPass, PassOpened, RecordWritten, PassClosed DEF Next

LEMMA InitDirectory == Init => DirectoryInv
<1> SUFFICES ASSUME Init PROVE DirectoryInv
  OBVIOUS
<1>1. perPass \in Seq({}) /\ ~ Complete(cell)
  BY SummaryComplete DEF Init
<1> QED
  BY <1>1 DEF Init, DirectoryInv, FilesAreItsRun

(* A finished cell is one run (run_cell.py 314-322): the files of a cell     *)
(* that has its summary are the passes of the run that wrote it, each whole  *)
(* and in order, whatever runs were killed in the directory before.          *)
THEOREM CellIsOneRun == Spec => []FilesAreItsRun
<1>1. DirectoryInv => FilesAreItsRun
  BY DEF DirectoryInv
<1> QED
  BY <1>1, InitDirectory, DirectoryInvStep, PTL DEF Spec

-----------------------------------------------------------------------------
(* Sums.  Induction over the natural numbers is here by a least             *)
(* counterexample: a set of them that is not empty has a least element.     *)
LEMMA LeastNatural ==
  ASSUME NEW T, T \subseteq Nat, T # {}
  PROVE  \E n \in T : \A m \in T : n <= m
<1>1. PICK n \in T : \A m \in T : ~ (<<m, n>> \in OpToRel(<, Nat))
  BY NatLessThanWellFounded, WFMin
<1>2. \A m \in T : ~ (m < n)
  BY <1>1 DEF OpToRel
<1> QED
  BY <1>2

(* The partial sums of a sequence.                                          *)
Sums(f, s, N) ==
  f \in [0..N -> Int] /\ f[0] = 0 /\ \A n \in 1..N : f[n] = f[n - 1] + s[n]

LEMMA SumsExist ==
  ASSUME NEW s \in Seq(Int), NEW N \in 0..Len(s)
  PROVE  \E f : Sums(f, s, N)
<1> DEFINE T == {n \in 0..Len(s) : ~ \E f : Sums(f, s, n)}
<1> SUFFICES ASSUME T # {} PROVE FALSE
  OBVIOUS
<1>1. T \subseteq Nat /\ Len(s) \in Nat
  OBVIOUS
<1>2. PICK n \in T : \A m \in T : n <= m
  BY <1>1, LeastNatural
<1>3. n \in 0..Len(s) /\ ~ \E f : Sums(f, s, n)
  BY <1>2
<1>4. n # 0
  <2> DEFINE g == [k \in 0..0 |-> 0]
  <2>1. g \in [0..0 -> Int] /\ g[0] = 0 /\ \A k \in 1..0 : g[k] = g[k - 1] + s[k]
    OBVIOUS
  <2> QED
    BY <1>3, <2>1 DEF Sums
<1>5. n - 1 \in 0..Len(s) /\ n - 1 \notin T
  BY <1>1, <1>2, <1>3, <1>4
<1>6. PICK f : Sums(f, s, n - 1)
  BY <1>5
<1> DEFINE g == [k \in 0..n |-> IF k = n THEN f[n - 1] + s[n] ELSE f[k]]
<1>7. f \in [0..(n - 1) -> Int] /\ s[n] \in Int /\ n - 1 \in 0..(n - 1)
  BY <1>3, <1>4, <1>6 DEF Sums
<1>8. g \in [0..n -> Int]
  BY <1>3, <1>7
<1>9. \A k \in 1..n : g[k] = g[k - 1] + s[k]
  <2> TAKE k \in 1..n
  <2>1. CASE k = n
    BY <1>3, <1>4, <2>1
  <2>2. CASE k # n
    <3>1. k \in 1..(n - 1) /\ k - 1 # n /\ k - 1 \in 0..n /\ k \in 0..n
      BY <1>3, <2>2
    <3>2. f[k] = f[k - 1] + s[k]
      BY <1>6, <3>1 DEF Sums
    <3> QED
      BY <2>2, <3>1, <3>2
  <2> QED
    BY <2>1, <2>2
<1>10. g[0] = 0
  BY <1>3, <1>4, <1>6 DEF Sums
<1> HIDE DEF g, T
<1> QED
  BY <1>3, <1>8, <1>9, <1>10 DEF Sums

(* Sums of two sequences that agree up to N.                                *)
LEMMA SumsAgree ==
  ASSUME NEW N \in Nat, NEW s, NEW t, NEW f, NEW g, Sums(f, s, N), Sums(g, t, N),
         \A n \in 1..N : s[n] = t[n]
  PROVE  f[N] = g[N]
<1> DEFINE T == {n \in 0..N : f[n] # g[n]}
<1> SUFFICES ASSUME T # {} PROVE FALSE
  OBVIOUS
<1>2. PICK n \in T : \A m \in T : n <= m
  <2>1. T \subseteq Nat
    OBVIOUS
  <2> QED
    BY <2>1, LeastNatural
<1>3. n \in 0..N /\ f[n] # g[n]
  BY <1>2
<1>4. n # 0
  BY <1>3 DEF Sums
<1>5. n - 1 \in 0..N /\ n - 1 \notin T /\ n \in 1..N
  BY <1>2, <1>3, <1>4
<1>6. f[n - 1] = g[n - 1]
  BY <1>5
<1> QED
  BY <1>3, <1>5, <1>6 DEF Sums

LEMMA TotalIsSum ==
  ASSUME NEW s \in Seq(Int)
  PROVE  \E f : Sums(f, s, Len(s)) /\ Total(s) = f[Len(s)]
<1> DEFINE N == Len(s)
           Step(f) == [n \in 0..N |-> IF n = 0 THEN 0 ELSE f[n - 1] + s[n]]
           upto == CHOOSE f : f = Step(f)
<1>1. N \in Nat
  OBVIOUS
<1>2. PICK f : Sums(f, s, N)
  BY <1>1, SumsExist
<1>3. f = Step(f)
  <2>1. \A n \in 0..N : f[n] = Step(f)[n]
    <3> TAKE n \in 0..N
    <3>1. CASE n = 0
      BY <1>2, <3>1 DEF Sums
    <3>2. CASE n # 0
      <4>1. n \in 1..N
        BY <1>1, <3>2
      <4> QED
        BY <1>2, <3>2, <4>1 DEF Sums
    <3> QED
      BY <3>1, <3>2
  <2>2. f = [n \in 0..N |-> f[n]]
    BY <1>2 DEF Sums
  <2> QED
    BY <2>1, <2>2
<1>4. upto = Step(upto)
  BY <1>3
<1>5. Total(s) = upto[N]
  BY DEF Total
<1>6. Sums(upto, s, N)
  <2> HIDE DEF upto
  <2>1. upto[0] = 0
    BY <1>1, <1>4
  <2>2. \A n \in 1..N : upto[n] = upto[n - 1] + s[n]
    BY <1>1, <1>4
  <2> DEFINE T == {n \in 0..N : upto[n] \notin Int}
  <2>3. T = {}
    <3> SUFFICES ASSUME T # {} PROVE FALSE
      OBVIOUS
    <3>1. PICK n \in T : \A m \in T : n <= m
      <4>1. T \subseteq Nat
        BY <1>1
      <4> QED
        BY <4>1, LeastNatural
    <3>2. n \in 0..N /\ n # 0 /\ upto[n] \notin Int
      BY <2>1, <3>1
    <3>3. n - 1 \in 0..N /\ n - 1 \notin T /\ n \in 1..N
      BY <1>1, <3>1, <3>2
    <3>4. upto[n - 1] \in Int /\ s[n] \in Int
      BY <3>3
    <3> QED
      BY <2>2, <3>2, <3>3, <3>4
  <2>4. upto = [n \in 0..N |-> upto[n]]
    BY <1>4
  <2>5. \A n \in 0..N : upto[n] \in Int
    BY <2>3
  <2> QED
    BY <2>1, <2>2, <2>4, <2>5 DEF Sums
<1> QED
  BY <1>5, <1>6

LEMMA TotalAppend ==
  ASSUME NEW s \in Seq(Int), NEW x \in Int
  PROVE  Total(s) \in Int /\ Total(Append(s, x)) = Total(s) + x
<1> DEFINE t == Append(s, x)
           N == Len(s)
<1>1. /\ t \in Seq(Int) /\ Len(t) = N + 1 /\ N \in Nat /\ t[N + 1] = x
      /\ \A n \in 1..N : t[n] = s[n]
  OBVIOUS
<1>2. PICK f : Sums(f, s, N) /\ Total(s) = f[N]
  BY TotalIsSum
<1>3. PICK g : Sums(g, t, N + 1) /\ Total(t) = g[N + 1]
  BY <1>1, TotalIsSum
<1> HIDE DEF t, N
<1> DEFINE h == [n \in 0..N |-> g[n]]
<1>4. Sums(h, t, N)
  <2>1. /\ g \in [0..(N + 1) -> Int] /\ g[0] = 0
        /\ \A n \in 1..(N + 1) : g[n] = g[n - 1] + t[n]
    BY <1>3 DEF Sums
  <2>2. h \in [0..N -> Int] /\ h[0] = 0
    BY <1>1, <2>1
  <2>3. \A n \in 1..N : h[n] = h[n - 1] + t[n]
    <3> TAKE n \in 1..N
    <3>1. n \in 1..(N + 1) /\ n \in 0..N /\ n - 1 \in 0..N
      BY <1>1
    <3>2. h[n] = g[n] /\ h[n - 1] = g[n - 1]
      BY <3>1
    <3> QED
      BY <2>1, <3>1, <3>2
  <2> QED
    BY <2>2, <2>3 DEF Sums
<1> HIDE DEF h
<1>5. h[N] = f[N]
  BY <1>1, <1>2, <1>4, SumsAgree
<1>6. g[N + 1] = g[N] + x /\ g[N] = h[N]
  BY <1>1, <1>3 DEF Sums, h
<1>7. f[N] \in Int
  BY <1>1, <1>2 DEF Sums
<1> QED
  BY <1>2, <1>3, <1>5, <1>6, <1>7 DEF t

LEMMA TotalEmpty == Total(<<>>) = 0
<1>1. PICK f : Sums(f, <<>>, Len(<<>>)) /\ Total(<<>>) = f[Len(<<>>)]
  BY EmptySeq, TotalIsSum
<1> QED
  BY <1>1, EmptySeq DEF Sums

LEMMA TotalIsInt == ASSUME NEW s \in Seq(Int) PROVE Total(s) \in Int
BY TotalAppend

LEMMA ConcatAppends ==
  ASSUME NEW S, NEW s \in Seq(S), NEW a \in Seq(S), NEW x \in S
  PROVE  s \o Append(a, x) = Append(s \o a, x)
<1>1. s \o Append(a, x) \in Seq(S) /\ Append(s \o a, x) \in Seq(S)
  OBVIOUS
<1>2. /\ Len(s \o Append(a, x)) = Len(s) + Len(a) + 1
      /\ Len(Append(s \o a, x)) = Len(s) + Len(a) + 1
  OBVIOUS
<1>3. \A n \in 1..(Len(s) + Len(a) + 1) : (s \o Append(a, x))[n] = Append(s \o a, x)[n]
  OBVIOUS
<1> QED
  BY <1>1, <1>2, <1>3, SeqEqual

LEMMA ConcatOneMore ==
  ASSUME NEW s \in Seq(Int), NEW a \in Seq(Int)
  PROVE  \A x \in Int : s \o Append(a, x) = Append(s \o a, x)
<1> TAKE x \in Int
<1> QED
  BY ConcatAppends

(* The sum of one more than v.                                              *)
LEMMA TotalGrows ==
  ASSUME NEW N \in Nat, NEW v \in [1..N -> Int], NEW u \in [1..(N + 1) -> Int],
         \A n \in 1..N : u[n] = v[n]
  PROVE  Total(v) \in Int /\ Total(u) = Total(v) + u[N + 1]
<1>1. v \in Seq(Int) /\ Len(v) = N
  OBVIOUS
<1>2. u[N + 1] \in Int
  OBVIOUS
<1>3. u = Append(v, u[N + 1])
  <2>1. u \in Seq(Int) /\ Len(u) = N + 1
    OBVIOUS
  <2>2. /\ Append(v, u[N + 1]) \in Seq(Int) /\ Len(Append(v, u[N + 1])) = N + 1
        /\ \A n \in 1..(N + 1) : Append(v, u[N + 1])[n] = u[n]
    <3>1. \A x \in Int : /\ Append(v, x) \in Seq(Int) /\ Len(Append(v, x)) = N + 1
                        /\ Append(v, x)[N + 1] = x
                        /\ \A n \in 1..N : Append(v, x)[n] = v[n]
      BY <1>1
    <3>2. \A n \in 1..(N + 1) : n \in 1..N \/ n = N + 1
      OBVIOUS
    <3> DEFINE w == Append(v, u[N + 1])
    <3>3. /\ w \in Seq(Int) /\ Len(w) = N + 1 /\ w[N + 1] = u[N + 1]
          /\ \A n \in 1..N : w[n] = v[n]
      BY <1>2, <3>1
    <3> HIDE DEF w
    <3>4. \A n \in 1..(N + 1) : w[n] = u[n]
      BY <3>2, <3>3
    <3> QED
      BY <3>3, <3>4 DEF w
  <2> QED
    BY <2>1, <2>2, SeqEqual
<1> QED
  BY <1>1, <1>2, <1>3, TotalAppend

(* The first n elements.                                                    *)
Front(t, n) == [k \in 1..n |-> t[k]]

LEMMA FrontGrows ==
  ASSUME NEW t \in Seq(Int)
  PROVE  /\ \A n \in 0..Len(t) : Front(t, n) \in Seq(Int) /\ Len(Front(t, n)) = n
         /\ Front(t, Len(t)) = t /\ Front(t, 0) = <<>>
         /\ \A n \in 1..Len(t) : Front(t, n) = Append(Front(t, n - 1), t[n])
<1>1. \A n \in 0..Len(t) : Front(t, n) \in Seq(Int) /\ Len(Front(t, n)) = n
  <2> TAKE n \in 0..Len(t)
  <2>1. Front(t, n) \in [1..n -> Int] /\ n \in Nat
    BY DEF Front
  <2> QED
    BY <2>1
<1>2. Front(t, Len(t)) = t
  BY DEF Front
<1>3. Front(t, 0) = <<>>
  BY <1>1, EmptySeq
<1>4. ASSUME NEW n \in 1..Len(t)
      PROVE  Front(t, n) = Append(Front(t, n - 1), t[n])
  <2>1. n - 1 \in 0..Len(t) /\ n \in 0..Len(t) /\ t[n] \in Int
    OBVIOUS
  <2>2. /\ Front(t, n) \in Seq(Int) /\ Len(Front(t, n)) = n
        /\ \A k \in 1..n : Front(t, n)[k] = t[k]
    BY <1>1, <2>1 DEF Front
  <2>3. /\ Front(t, n - 1) \in Seq(Int) /\ Len(Front(t, n - 1)) = n - 1
        /\ \A k \in 1..(n - 1) : Front(t, n - 1)[k] = t[k]
    BY <1>1, <2>1 DEF Front
  <2>4. /\ Append(Front(t, n - 1), t[n]) \in Seq(Int)
        /\ Len(Append(Front(t, n - 1), t[n])) = n
        /\ \A k \in 1..n : Append(Front(t, n - 1), t[n])[k] = t[k]
    BY <2>1, <2>3
  <2> QED
    BY <2>2, <2>4, SeqEqual
<1> QED
  BY <1>1, <1>2, <1>3, <1>4

(* The sum of two lists put together.                                       *)
LEMMA TotalConcat ==
  ASSUME NEW s \in Seq(Int), NEW t \in Seq(Int)
  PROVE  Total(s \o t) = Total(s) + Total(t)
<1> DEFINE Holds(n) == Total(s \o Front(t, n)) = Total(s) + Total(Front(t, n))
           T == {n \in 0..Len(t) : ~ Holds(n)}
<1>1. Len(t) \in Nat
  OBVIOUS
<1>2. Holds(0)
  <2>1. s \o <<>> = s
    BY ConcatEmptySeq
  <2>2. Total(s) \in Int
    BY TotalIsInt
  <2>3. Front(t, 0) = <<>> /\ Total(<<>>) = 0
    BY FrontGrows, TotalEmpty
  <2>4. Total(s \o Front(t, 0)) = Total(s) /\ Total(Front(t, 0)) = 0
    BY <2>1, <2>3
  <2>5. \A x \in Int : x = x + 0
    OBVIOUS
  <2> QED
    BY <2>2, <2>4, <2>5
<1>3. ASSUME NEW n \in 1..Len(t), Holds(n - 1) PROVE Holds(n)
  <2> DEFINE a == Front(t, n - 1)
  <2>1. a \in Seq(Int) /\ Front(t, n) = Append(a, t[n]) /\ t[n] \in Int
    <3>1. n - 1 \in 0..Len(t)
      BY <1>1
    <3>2. /\ \A k \in 0..Len(t) : Front(t, k) \in Seq(Int)
          /\ \A k \in 1..Len(t) : Front(t, k) = Append(Front(t, k - 1), t[k])
      BY FrontGrows
    <3> QED
      BY <3>1, <3>2
  <2>2. Total(s \o a) = Total(s) + Total(a)
    BY <1>3
  <2> HIDE DEF a
  <2>3. s \o Append(a, t[n]) = Append(s \o a, t[n]) /\ s \o a \in Seq(Int)
    <3>1. s \o a \in Seq(Int)
      BY <2>1
    <3>2. \A x \in Int : s \o Append(a, x) = Append(s \o a, x)
      BY <2>1, ConcatOneMore
    <3> QED
      BY <2>1, <3>1, <3>2
  <2>4. /\ Total(Append(a, t[n])) = Total(a) + t[n]
        /\ Total(Append(s \o a, t[n])) = Total(s \o a) + t[n]
        /\ Total(s) \in Int /\ Total(a) \in Int
    BY <2>1, <2>3, TotalAppend, TotalIsInt
  <2> QED
    BY <2>1, <2>2, <2>3, <2>4
<1> HIDE DEF Holds
<1>4. T = {}
  <2> SUFFICES ASSUME T # {} PROVE FALSE
    OBVIOUS
  <2>1. PICK n \in T : \A m \in T : n <= m
    <3>1. T \subseteq Nat
      BY <1>1
    <3> QED
      BY <3>1, LeastNatural
  <2>2. n \in 0..Len(t) /\ n # 0
    BY <1>2, <2>1
  <2>3. n - 1 \in 0..Len(t) /\ n - 1 \notin T /\ n \in 1..Len(t)
    BY <1>1, <2>1, <2>2
  <2> QED
    BY <1>3, <2>1, <2>3
<1>5. Holds(Len(t))
  BY <1>1, <1>4
<1> QED
  BY <1>5, FrontGrows DEF Holds

-----------------------------------------------------------------------------
(* What a run is charged: the inductive invariant of UsageIsPartitioned.    *)
Working == phase \in {"pass", "summed", "writing"}

(* A sequence, whatever its elements are.                                   *)
IsList(s) == s \in Seq({s[n] : n \in DOMAIN s})

(* The records of the pass that is open, and all of the run so far.         *)
OpenRecords == IF phase = "pass" THEN records ELSE <<>>

Current == allRecords \o OpenRecords

IsScored(r) ==
  /\ r.usage.calls \in Int /\ r.usage.tokens \in Int /\ r.verifierUsage.calls \in Int

IsSummed(p) == p.calls \in Int /\ p.tokens \in Int

RecordCalls(rs) == [n \in DOMAIN rs |-> rs[n].usage.calls]
RecordTokens(rs) == [n \in DOMAIN rs |-> rs[n].usage.tokens]
VerifierRecordCalls(rs) == [n \in DOMAIN rs |-> rs[n].verifierUsage.calls]
PassCalls(ps) == [n \in DOMAIN ps |-> ps[n].calls]
PassTokens(ps) == [n \in DOMAIN ps |-> ps[n].tokens]

Typed ==
  /\ IsList(perPass) /\ IsList(allRecords) /\ IsList(OpenRecords)
  /\ \A n \in DOMAIN allRecords : IsScored(allRecords[n])
  /\ \A n \in DOMAIN OpenRecords : IsScored(OpenRecords[n])
  /\ \A n \in DOMAIN perPass : IsSummed(perPass[n])

(* No pass and no record with a number of tokens that is not reported.      *)
Priced(ps, rs) ==
  /\ \A n \in DOMAIN ps : ps[n].tokens # Unreported
  /\ \A n \in DOMAIN rs : rs[n].usage.tokens # Unreported

(* The calls of the reasoner are those of the records, and those of the     *)
(* passes with the records of the pass that is open; as long as nothing of  *)
(* them is unreported the tokens are too.                                   *)
Metered ==
  /\ Typed
  /\ reasonerSeen = Len(calls) /\ verifierSeen = Len(verifierCalls)
  /\ Total(RecordCalls(Current)) = Len(calls)
  /\ Total(VerifierRecordCalls(Current)) = Len(verifierCalls)
  /\ Total(PassCalls(perPass)) + Total(RecordCalls(OpenRecords)) = Len(calls)
  /\ Priced(perPass, OpenRecords) =>
       /\ \A n \in DOMAIN calls : calls[n] # Unreported
       /\ Total(PassTokens(perPass)) + Total(RecordTokens(OpenRecords)) = Total(calls)
       /\ perPass # <<>> \/ OpenRecords # <<>> => calls # <<>>

Fresh ==
  /\ perPass = <<>> /\ allRecords = <<>> /\ calls = <<>> /\ verifierCalls = <<>>
  /\ reasonerSeen = 0 /\ verifierSeen = 0

RowPriced ==
  LET priced == Row(cell)
  IN  /\ priced.calls = Len(calls)
      /\ priced.tokens # Unreported => priced.tokens = SumOrNone(calls)

MeterInv ==
  /\ calls \in Seq(Int) /\ verifierCalls \in Seq(Int)
  /\ phase \in {"clear", "stale"} => Fresh
  /\ Working => Metered
  /\ exit = "0" => phase = "idle" /\ RowPriced

LEMMA ListIsList == ASSUME NEW S, NEW s \in Seq(S) PROVE IsList(s)
<1>1. s \in [1..Len(s) -> {s[n] : n \in DOMAIN s}] /\ Len(s) \in Nat
  OBVIOUS
<1> QED
  BY <1>1 DEF IsList

(* Nothing is listed, and nothing is in the sums.                           *)
LEMMA EmptyLists ==
  /\ IsList(<<>>) /\ DOMAIN <<>> = {} /\ Len(<<>>) = 0 /\ <<>> \o <<>> = <<>>
  /\ RecordCalls(<<>>) = <<>> /\ RecordTokens(<<>>) = <<>>
  /\ VerifierRecordCalls(<<>>) = <<>> /\ PassCalls(<<>>) = <<>> /\ PassTokens(<<>>) = <<>>
  /\ Total(<<>>) = 0
<1>1. <<>> \in Seq(Int) /\ Len(<<>>) = 0
  BY EmptySeq
<1>2. DOMAIN <<>> = {}
  BY <1>1
<1>3. \A s : DOMAIN s = {} /\ s = [n \in {} |-> s[n]] => s = <<>>
  <2>1. <<>> = [n \in {} |-> <<>>[n]]
    BY <1>1, <1>2
  <2>2. \A s : [n \in {} |-> s[n]] = [n \in {} |-> <<>>[n]]
    OBVIOUS
  <2> QED
    BY <2>1, <2>2
<1>4. /\ RecordCalls(<<>>) = <<>> /\ RecordTokens(<<>>) = <<>>
      /\ VerifierRecordCalls(<<>>) = <<>> /\ PassCalls(<<>>) = <<>> /\ PassTokens(<<>>) = <<>>
  BY <1>2, <1>3 DEF RecordCalls, RecordTokens, VerifierRecordCalls, PassCalls, PassTokens
<1>5. <<>> \o <<>> = <<>>
  BY <1>1, ConcatEmptySeq
<1> QED
  BY <1>1, <1>2, <1>4, <1>5, ListIsList, TotalEmpty

LEMMA OneMore ==
  ASSUME NEW s, IsList(s), NEW x
  PROVE  /\ IsList(Append(s, x)) /\ Append(s, x) # <<>>
         /\ Len(s) \in Nat /\ Len(Append(s, x)) = Len(s) + 1
         /\ DOMAIN s = 1..Len(s) /\ DOMAIN Append(s, x) = 1..(Len(s) + 1)
         /\ Append(s, x)[Len(s) + 1] = x /\ \A n \in 1..Len(s) : Append(s, x)[n] = s[n]
<1> DEFINE S == {s[n] : n \in DOMAIN s} \cup {x}
<1>1. s \in Seq(S) /\ x \in S
  <2>1. s \in Seq({s[n] : n \in DOMAIN s})
    BY DEF IsList
  <2> QED
    BY <2>1
<1> HIDE DEF S
<1>2. /\ Append(s, x) \in Seq(S) /\ Len(s) \in Nat /\ Len(Append(s, x)) = Len(s) + 1
      /\ DOMAIN s = 1..Len(s) /\ DOMAIN Append(s, x) = 1..(Len(s) + 1)
      /\ Append(s, x)[Len(s) + 1] = x /\ \A n \in 1..Len(s) : Append(s, x)[n] = s[n]
  BY <1>1
<1>3. Append(s, x) # <<>>
  <2>1. Len(<<>>) = 0 /\ Len(s) + 1 # 0
    BY <1>2, EmptyLists
  <2> QED
    BY <1>2, <2>1
<1> QED
  BY <1>2, <1>3, ListIsList

LEMMA PutTogether ==
  ASSUME NEW s, IsList(s), NEW t, IsList(t)
  PROVE  /\ IsList(s \o t) /\ (s \o t) \o <<>> = s \o t
         /\ Len(s) \in Nat /\ DOMAIN s = 1..Len(s) /\ Len(t) \in Nat /\ DOMAIN t = 1..Len(t)
         /\ Len(s \o t) = Len(s) + Len(t) /\ DOMAIN (s \o t) = 1..(Len(s) + Len(t))
         /\ \A n \in 1..Len(s) : (s \o t)[n] = s[n]
         /\ \A n \in 1..Len(t) : (s \o t)[Len(s) + n] = t[n]
         /\ \A x : s \o Append(t, x) = Append(s \o t, x)
<1> DEFINE S == {s[n] : n \in DOMAIN s} \cup {t[n] : n \in DOMAIN t}
<1>1. s \in Seq(S) /\ t \in Seq(S)
  <2>1. s \in Seq({s[n] : n \in DOMAIN s}) /\ t \in Seq({t[n] : n \in DOMAIN t})
    BY DEF IsList
  <2> QED
    BY <2>1
<1> HIDE DEF S
<1>2. /\ s \o t \in Seq(S) /\ Len(s) \in Nat /\ Len(t) \in Nat
      /\ DOMAIN s = 1..Len(s) /\ DOMAIN t = 1..Len(t)
      /\ Len(s \o t) = Len(s) + Len(t) /\ DOMAIN (s \o t) = 1..(Len(s) + Len(t))
      /\ \A n \in 1..Len(s) : (s \o t)[n] = s[n]
      /\ \A n \in 1..Len(t) : (s \o t)[Len(s) + n] = t[n]
  BY <1>1
<1>3. IsList(s \o t) /\ (s \o t) \o <<>> = s \o t
  BY <1>2, ListIsList, ConcatEmptySeq
<1>4. ASSUME NEW x PROVE s \o Append(t, x) = Append(s \o t, x)
  <2>1. s \in Seq(S \cup {x}) /\ t \in Seq(S \cup {x}) /\ x \in S \cup {x}
    BY <1>1
  <2> QED
    BY <2>1, ConcatAppends
<1> QED
  BY <1>2, <1>3, <1>4

LEMMA Columns ==
  ASSUME NEW s, IsList(s)
  PROVE  /\ (\A n \in DOMAIN s : IsScored(s[n])) =>
              /\ RecordCalls(s) \in Seq(Int) /\ RecordTokens(s) \in Seq(Int)
              /\ VerifierRecordCalls(s) \in Seq(Int)
         /\ (\A n \in DOMAIN s : IsSummed(s[n])) =>
              PassCalls(s) \in Seq(Int) /\ PassTokens(s) \in Seq(Int)
<1>1. DOMAIN s = 1..Len(s) /\ Len(s) \in Nat
  BY DEF IsList
<1>2. ASSUME \A n \in DOMAIN s : IsScored(s[n])
      PROVE  /\ RecordCalls(s) \in [1..Len(s) -> Int]
             /\ RecordTokens(s) \in [1..Len(s) -> Int]
             /\ VerifierRecordCalls(s) \in [1..Len(s) -> Int]
  BY <1>1, <1>2 DEF RecordCalls, RecordTokens, VerifierRecordCalls, IsScored
<1>3. ASSUME \A n \in DOMAIN s : IsSummed(s[n])
      PROVE  /\ PassCalls(s) \in [1..Len(s) -> Int]
             /\ PassTokens(s) \in [1..Len(s) -> Int]
  BY <1>1, <1>3 DEF PassCalls, PassTokens, IsSummed
<1>4. \A f : f \in [1..Len(s) -> Int] => f \in Seq(Int)
  BY <1>1
<1> QED
  BY <1>2, <1>3, <1>4

(* One more record, one more pass.                                          *)
LEMMA RecordsGrow ==
  ASSUME NEW rs, IsList(rs), \A n \in DOMAIN rs : IsScored(rs[n]), NEW r, IsScored(r)
  PROVE  LET all == Append(rs, r)
         IN  /\ IsList(all) /\ all # <<>> /\ \A n \in DOMAIN all : IsScored(all[n])
             /\ DOMAIN all = DOMAIN rs \cup {Len(rs) + 1}
             /\ all[Len(rs) + 1] = r /\ \A n \in DOMAIN rs : all[n] = rs[n]
             /\ Total(RecordCalls(all)) = Total(RecordCalls(rs)) + r.usage.calls
             /\ Total(RecordTokens(all)) = Total(RecordTokens(rs)) + r.usage.tokens
             /\ Total(VerifierRecordCalls(all)) =
                  Total(VerifierRecordCalls(rs)) + r.verifierUsage.calls
<1> DEFINE all == Append(rs, r)
           N == Len(rs)
<1>1. /\ IsList(all) /\ all # <<>> /\ Len(all) = N + 1 /\ N \in Nat /\ DOMAIN rs = 1..N
      /\ DOMAIN all = 1..(N + 1) /\ all[N + 1] = r /\ \A n \in 1..N : all[n] = rs[n]
  BY OneMore
<1> HIDE DEF all, N
<1>2. 1..(N + 1) = 1..N \cup {N + 1}
  BY <1>1
<1>3. \A n \in 1..(N + 1) : IsScored(all[n])
  BY <1>1, <1>2
<1>4. Total(RecordCalls(all)) = Total(RecordCalls(rs)) + r.usage.calls
  <2>1. /\ RecordCalls(rs) \in [1..N -> Int] /\ RecordCalls(all) \in [1..(N + 1) -> Int]
        /\ \A n \in 1..N : RecordCalls(all)[n] = RecordCalls(rs)[n]
        /\ RecordCalls(all)[N + 1] = r.usage.calls
    BY <1>1, <1>2, <1>3 DEF RecordCalls, IsScored
  <2> QED
    BY <1>1, <2>1, TotalGrows
<1>5. Total(RecordTokens(all)) = Total(RecordTokens(rs)) + r.usage.tokens
  <2>1. /\ RecordTokens(rs) \in [1..N -> Int] /\ RecordTokens(all) \in [1..(N + 1) -> Int]
        /\ \A n \in 1..N : RecordTokens(all)[n] = RecordTokens(rs)[n]
        /\ RecordTokens(all)[N + 1] = r.usage.tokens
    BY <1>1, <1>2, <1>3 DEF RecordTokens, IsScored
  <2> QED
    BY <1>1, <2>1, TotalGrows
<1>6. Total(VerifierRecordCalls(all)) = Total(VerifierRecordCalls(rs)) + r.verifierUsage.calls
  <2>1. /\ VerifierRecordCalls(rs) \in [1..N -> Int] /\ VerifierRecordCalls(all) \in [1..(N + 1) -> Int]
        /\ \A n \in 1..N : VerifierRecordCalls(all)[n] = VerifierRecordCalls(rs)[n]
        /\ VerifierRecordCalls(all)[N + 1] = r.verifierUsage.calls
    BY <1>1, <1>2, <1>3 DEF VerifierRecordCalls, IsScored
  <2> QED
    BY <1>1, <2>1, TotalGrows
<1>7. DOMAIN all = DOMAIN rs \cup {N + 1}
  BY <1>1, <1>2
<1>8. \A n \in DOMAIN all : IsScored(all[n])
  BY <1>1, <1>3
<1> QED
  BY <1>1, <1>4, <1>5, <1>6, <1>7, <1>8 DEF all, N

LEMMA ScoredTogether ==
  ASSUME NEW s, IsList(s), \A n \in DOMAIN s : IsScored(s[n]),
         NEW t, IsList(t), \A n \in DOMAIN t : IsScored(t[n])
  PROVE  \A n \in DOMAIN (s \o t) : IsScored((s \o t)[n])
<1> DEFINE all == s \o t
           a == Len(s)
<1>1. /\ a \in Nat /\ DOMAIN s = 1..a /\ Len(t) \in Nat /\ DOMAIN t = 1..Len(t)
      /\ DOMAIN all = 1..(a + Len(t)) /\ \A n \in 1..a : all[n] = s[n]
      /\ \A n \in 1..Len(t) : all[a + n] = t[n]
  BY PutTogether
<1> HIDE DEF all, a
<1> SUFFICES ASSUME NEW n \in 1..(a + Len(t)) PROVE IsScored(all[n])
  BY <1>1 DEF all
<1>2. CASE n \in 1..a
  BY <1>1, <1>2
<1>3. CASE n \notin 1..a
  <2>1. n - a \in 1..Len(t) /\ a + (n - a) = n
    BY <1>1, <1>3
  <2> QED
    BY <1>1, <2>1
<1> QED
  BY <1>2, <1>3

LEMMA PassesGrow ==
  ASSUME NEW ps, IsList(ps), \A n \in DOMAIN ps : IsSummed(ps[n]), NEW p, IsSummed(p)
  PROVE  LET all == Append(ps, p)
         IN  /\ IsList(all) /\ all # <<>> /\ \A n \in DOMAIN all : IsSummed(all[n])
             /\ DOMAIN all = DOMAIN ps \cup {Len(ps) + 1}
             /\ all[Len(ps) + 1] = p /\ \A n \in DOMAIN ps : all[n] = ps[n]
             /\ Total(PassCalls(all)) = Total(PassCalls(ps)) + p.calls
             /\ Total(PassTokens(all)) = Total(PassTokens(ps)) + p.tokens
<1> DEFINE all == Append(ps, p)
           N == Len(ps)
<1>1. /\ IsList(all) /\ all # <<>> /\ Len(all) = N + 1 /\ N \in Nat /\ DOMAIN ps = 1..N
      /\ DOMAIN all = 1..(N + 1) /\ all[N + 1] = p /\ \A n \in 1..N : all[n] = ps[n]
  BY OneMore
<1> HIDE DEF all, N
<1>2. 1..(N + 1) = 1..N \cup {N + 1}
  BY <1>1
<1>3. \A n \in 1..(N + 1) : IsSummed(all[n])
  BY <1>1, <1>2
<1>4. Total(PassCalls(all)) = Total(PassCalls(ps)) + p.calls
  <2>1. /\ PassCalls(ps) \in [1..N -> Int] /\ PassCalls(all) \in [1..(N + 1) -> Int]
        /\ \A n \in 1..N : PassCalls(all)[n] = PassCalls(ps)[n]
        /\ PassCalls(all)[N + 1] = p.calls
    BY <1>1, <1>2, <1>3 DEF PassCalls, IsSummed
  <2> QED
    BY <1>1, <2>1, TotalGrows
<1>5. Total(PassTokens(all)) = Total(PassTokens(ps)) + p.tokens
  <2>1. /\ PassTokens(ps) \in [1..N -> Int] /\ PassTokens(all) \in [1..(N + 1) -> Int]
        /\ \A n \in 1..N : PassTokens(all)[n] = PassTokens(ps)[n]
        /\ PassTokens(all)[N + 1] = p.tokens
    BY <1>1, <1>2, <1>3 DEF PassTokens, IsSummed
  <2> QED
    BY <1>1, <2>1, TotalGrows
<1>6. DOMAIN all = DOMAIN ps \cup {N + 1} /\ \A n \in DOMAIN all : IsSummed(all[n])
  BY <1>1, <1>2, <1>3
<1> QED
  BY <1>1, <1>4, <1>5, <1>6 DEF all, N

(* What is priced is not lost with the price.                               *)
LEMMA PriceOf ==
  ASSUME NEW s, SumOrNone(s) # Unreported
  PROVE  /\ s # <<>> /\ SumOrNone(s) = Total(s)
         /\ \A n \in DOMAIN s : s[n] # Unreported
BY DEF SumOrNone

LEMMA PriceIsInt == ASSUME NEW s \in Seq(Int) PROVE SumOrNone(s) \in Int
BY TotalIsInt DEF SumOrNone, Unreported

(* What is charged to a scenario is what was called for it.                 *)
LEMMA Charge ==
  ASSUME NEW s \in Seq(Int), NEW new \in Seq(Int)
  PROVE  /\ s \o new \in Seq(Int) /\ Len(s \o new) = Len(s) + Len(new)
         /\ SubSeq(s \o new, Len(s) + 1, Len(s \o new)) = new
         /\ UsageDelta(s \o new, Len(s)) = [calls |-> Len(new), tokens |-> SumOrNone(new)]
<1>1. /\ s \o new \in Seq(Int) /\ Len(s \o new) = Len(s) + Len(new)
      /\ \A n \in 1..Len(new) : (s \o new)[Len(s) + n] = new[n]
  OBVIOUS
<1> DEFINE sub == SubSeq(s \o new, Len(s) + 1, Len(s \o new))
<1>2. sub = new
  <2>1. /\ sub \in Seq(Int) /\ Len(sub) = Len(new)
        /\ \A n \in 1..Len(new) : sub[n] = new[n]
    BY <1>1
  <2> HIDE DEF sub
  <2> QED
    BY <2>1, SeqEqual
<1> HIDE DEF sub
<1> QED
  BY <1>1, <1>2 DEF UsageDelta, sub

LEMMA MeteredSame ==
  ASSUME Metered, OpenRecords' = OpenRecords,
         UNCHANGED <<perPass, allRecords, calls, verifierCalls, reasonerSeen, verifierSeen>>
  PROVE  Metered'
BY DEF Metered, Typed, Current

LEMMA MeteredAtFirst ==
  ASSUME Fresh', OpenRecords' = <<>>
  PROVE  Metered'
<1>1. /\ perPass' = <<>> /\ Current' = <<>> /\ allRecords' = <<>> /\ calls' = <<>>
      /\ verifierCalls' = <<>> /\ reasonerSeen' = 0 /\ verifierSeen' = 0
  BY EmptyLists DEF Fresh, Current
<1>2. Typed'
  BY <1>1, EmptyLists DEF Typed
<1> QED
  BY <1>1, <1>2, EmptyLists DEF Metered

LEMMA MeteredRecord ==
  ASSUME MeterInv, ScenarioEnds
  PROVE  Metered'
<1>1. PICK result \in Results : Score(result)
  BY DEF ScenarioEnds
<1> DEFINE new == result.calls
           vnew == IF args.verify THEN result.verifierCalls ELSE <<>>
           record == ScenarioRecord(Len(records) + 1, result,
                                    UsageDelta(calls', reasonerSeen),
                                    UsageDelta(verifierCalls', verifierSeen))
<1>2. /\ Metered /\ phase = "pass" /\ OpenRecords = records /\ calls \in Seq(Int)
      /\ verifierCalls \in Seq(Int) /\ reasonerSeen = Len(calls)
      /\ verifierSeen = Len(verifierCalls)
  BY DEF MeterInv, Working, ScenarioEnds, OpenRecords, Metered
<1>3. new \in Seq(Int) /\ vnew \in Seq(Int)
  <2>1. result.calls \in Seq(Int) /\ result.verifierCalls \in Seq(Int) /\ <<>> \in Seq(Int)
    BY ResultsAssumption, EmptySeq
  <2> QED
    BY <2>1
<1>4. /\ calls' = calls \o new /\ verifierCalls' = verifierCalls \o vnew
      /\ records' = Append(records, record)
      /\ reasonerSeen' = Len(calls') /\ verifierSeen' = Len(verifierCalls')
      /\ perPass' = perPass /\ allRecords' = allRecords /\ OpenRecords' = records'
  <2>1. verifierCalls \o <<>> = verifierCalls
    BY <1>2, ConcatEmptySeq
  <2> QED
    BY <1>1, <1>2, <2>1 DEF Score, ScenarioEnds, OpenRecords
<1>5. /\ record.usage = [calls |-> Len(new), tokens |-> SumOrNone(new)]
      /\ record.verifierUsage = [calls |-> Len(vnew), tokens |-> SumOrNone(vnew)]
  <2>1. /\ record.usage = UsageDelta(calls', Len(calls))
        /\ record.verifierUsage = UsageDelta(verifierCalls', Len(verifierCalls))
    BY <1>2 DEF ScenarioRecord
  <2> HIDE DEF record, new, vnew
  <2> QED
    BY <1>2, <1>3, <1>4, <2>1, Charge
<1> HIDE DEF record, new, vnew
<1>6. /\ record.usage.calls = Len(new) /\ record.usage.tokens = SumOrNone(new)
      /\ record.verifierUsage.calls = Len(vnew) /\ Len(new) \in Nat /\ Len(vnew) \in Nat
      /\ Len(calls) \in Nat /\ Len(verifierCalls) \in Nat
      /\ Len(calls') = Len(calls) + Len(new)
      /\ Len(verifierCalls') = Len(verifierCalls) + Len(vnew)
      /\ calls' \in Seq(Int)
  BY <1>2, <1>3, <1>4, <1>5
<1>7. IsScored(record)
  BY <1>3, <1>6, PriceIsInt DEF IsScored
<1>8. IsList(records) /\ IsList(allRecords) /\ \A n \in DOMAIN records : IsScored(records[n])
  BY <1>2 DEF Metered, Typed
<1>9. Typed'
  BY <1>2, <1>4, <1>7, <1>8, RecordsGrow DEF Metered, Typed
<1>10. /\ Current' = Append(Current, record) /\ IsList(Current)
       /\ \A n \in DOMAIN Current : IsScored(Current[n])
  <2>1. Current = allRecords \o records /\ Current' = allRecords \o Append(records, record)
    BY <1>2, <1>4 DEF Current
  <2>2. \A n \in DOMAIN allRecords : IsScored(allRecords[n])
    BY <1>2 DEF Metered, Typed
  <2>3. \A n \in DOMAIN (allRecords \o records) : IsScored((allRecords \o records)[n])
    BY <1>8, <2>2, ScoredTogether
  <2> QED
    BY <1>8, <2>1, <2>3, PutTogether
<1>11. /\ Total(RecordCalls(Current')) = Total(RecordCalls(Current)) + Len(new)
       /\ Total(VerifierRecordCalls(Current')) = Total(VerifierRecordCalls(Current)) + Len(vnew)
  <2> DEFINE more == Append(Current, record)
  <2>1. /\ Total(RecordCalls(more)) = Total(RecordCalls(Current)) + record.usage.calls
        /\ Total(VerifierRecordCalls(more)) =
             Total(VerifierRecordCalls(Current)) + record.verifierUsage.calls
    BY <1>7, <1>10, RecordsGrow
  <2> HIDE DEF more
  <2>2. Current' = more
    BY <1>10 DEF more
  <2> QED
    BY <1>6, <2>1, <2>2
<1>12. /\ Total(RecordCalls(records')) = Total(RecordCalls(records)) + Len(new)
       /\ Total(RecordTokens(records')) = Total(RecordTokens(records)) + SumOrNone(new)
       /\ records' # <<>> /\ records'[Len(records) + 1] = record
       /\ DOMAIN records' = DOMAIN records \cup {Len(records) + 1}
       /\ \A n \in DOMAIN records : records'[n] = records[n]
  <2> DEFINE more == Append(records, record)
  <2>1. /\ Total(RecordCalls(more)) = Total(RecordCalls(records)) + record.usage.calls
        /\ Total(RecordTokens(more)) = Total(RecordTokens(records)) + record.usage.tokens
        /\ more # <<>> /\ more[Len(records) + 1] = record
        /\ DOMAIN more = DOMAIN records \cup {Len(records) + 1}
        /\ \A n \in DOMAIN records : more[n] = records[n]
    BY <1>7, <1>8, RecordsGrow
  <2> HIDE DEF more
  <2>2. records' = more
    BY <1>4 DEF more
  <2> QED
    BY <1>6, <2>1, <2>2
<1>13. ASSUME Priced(perPass, records')
       PROVE  /\ \A n \in DOMAIN calls' : calls'[n] # Unreported
              /\ Total(PassTokens(perPass)) + Total(RecordTokens(records')) = Total(calls')
              /\ calls' # <<>>
  <2>1. Priced(perPass, records) /\ SumOrNone(new) # Unreported
    <3>1. record.usage.tokens # Unreported
      BY <1>12, <1>13 DEF Priced
    <3>2. \A n \in DOMAIN records : records[n].usage.tokens # Unreported
      BY <1>12, <1>13 DEF Priced
    <3> QED
      BY <1>6, <1>13, <3>1, <3>2 DEF Priced
  <2>2. /\ \A n \in DOMAIN calls : calls[n] # Unreported
        /\ Total(PassTokens(perPass)) + Total(RecordTokens(records)) = Total(calls)
    BY <1>2, <2>1 DEF Metered
  <2>3. /\ new # <<>> /\ SumOrNone(new) = Total(new)
        /\ \A n \in DOMAIN new : new[n] # Unreported
    BY <2>1, PriceOf
  <2>4. Total(calls') = Total(calls) + Total(new)
    <3>1. Total(calls \o new) = Total(calls) + Total(new)
      BY <1>2, <1>3, TotalConcat
    <3> QED
      BY <1>4, <3>1
  <2>5. /\ Total(PassTokens(perPass)) \in Int /\ Total(RecordTokens(records)) \in Int
        /\ Total(calls) \in Int /\ Total(new) \in Int
    <3>1. PassTokens(perPass) \in Seq(Int)
      BY <1>2, Columns DEF Metered, Typed
    <3>2. RecordTokens(records) \in Seq(Int)
      BY <1>8, Columns
    <3> QED
      BY <1>2, <1>3, <3>1, <3>2, TotalIsInt
  <2>6. calls' # <<>> /\ \A n \in DOMAIN calls' : calls'[n] # Unreported
    <3>1. Len(new) # 0
      BY <1>3, <2>3, EmptySeq
    <3>2. Len(calls') # 0 /\ Len(<<>>) = 0
      BY <1>6, <3>1, EmptySeq
    <3>3. \A n \in DOMAIN calls' : calls'[n] # Unreported
      BY <1>2, <1>3, <1>4, <2>2, <2>3
    <3> QED
      BY <3>2, <3>3
  <2> QED
    BY <1>12, <2>2, <2>3, <2>4, <2>5, <2>6
<1> QED
  <2>1. /\ Total(RecordCalls(Current)) = Len(calls)
        /\ Total(VerifierRecordCalls(Current)) = Len(verifierCalls)
        /\ Total(PassCalls(perPass)) + Total(RecordCalls(records)) = Len(calls)
    BY <1>2 DEF Metered
  <2>2. Total(PassCalls(perPass)) \in Int /\ Total(RecordCalls(records)) \in Int
    <3>1. PassCalls(perPass) \in Seq(Int)
      BY <1>2, Columns DEF Metered, Typed
    <3>2. RecordCalls(records) \in Seq(Int)
      BY <1>8, Columns
    <3> QED
      BY <3>1, <3>2, TotalIsInt
  <2>3. /\ Total(RecordCalls(Current')) = Len(calls')
        /\ Total(VerifierRecordCalls(Current')) = Len(verifierCalls')
        /\ Total(PassCalls(perPass')) + Total(RecordCalls(OpenRecords')) = Len(calls')
    <3> DEFINE a == Total(PassCalls(perPass))
               b == Total(RecordCalls(records))
               m == Len(calls)
               d == Len(new)
    <3>1. a \in Int /\ b \in Int /\ m \in Int /\ d \in Int /\ a + b = m
      BY <1>6, <2>1, <2>2
    <3> HIDE DEF a, b, m, d
    <3>2. a + (b + d) = m + d
      BY <3>1
    <3>3. Total(PassCalls(perPass')) + Total(RecordCalls(OpenRecords')) = Len(calls')
      BY <1>4, <1>6, <1>12, <3>2 DEF a, b, m, d
    <3> QED
      BY <1>6, <1>11, <2>1, <3>3
  <2> QED
    BY <1>4, <1>9, <1>12, <1>13, <2>3 DEF Metered

LEMMA SummaryColumns ==
  ASSUME NEW rs
  PROVE  /\ PassSummary(rs).calls = Total(RecordCalls(rs))
         /\ PassSummary(rs).tokens = SumOrNone(RecordTokens(rs))
BY DEF PassSummary, Select, RecordCalls, RecordTokens

LEMMA MeteredPass ==
  ASSUME MeterInv, PassEnds
  PROVE  Metered'
<1> DEFINE p == PassSummary(records)
<1>1. /\ Metered /\ OpenRecords = records /\ OpenRecords' = <<>>
      /\ perPass' = Append(perPass, p) /\ allRecords' = allRecords \o records
      /\ Len(records) = ScenarioCount
      /\ UNCHANGED <<calls, verifierCalls, reasonerSeen, verifierSeen>>
  BY DEF MeterInv, Working, PassEnds, OpenRecords, process
<1>2. /\ p.calls = Total(RecordCalls(records)) /\ p.tokens = SumOrNone(RecordTokens(records))
  BY SummaryColumns
<1> HIDE DEF p
<1>3. /\ IsList(records) /\ \A n \in DOMAIN records : IsScored(records[n])
      /\ IsList(allRecords) /\ \A n \in DOMAIN allRecords : IsScored(allRecords[n])
      /\ IsList(perPass) /\ \A n \in DOMAIN perPass : IsSummed(perPass[n])
  BY <1>1 DEF Metered, Typed
<1>4. /\ RecordCalls(records) \in Seq(Int) /\ RecordTokens(records) \in Seq(Int)
      /\ Total(RecordCalls(records)) \in Int /\ SumOrNone(RecordTokens(records)) \in Int
      /\ Total(PassCalls(perPass)) \in Int /\ Total(PassTokens(perPass)) \in Int
  <2>1. /\ RecordCalls(records) \in Seq(Int) /\ RecordTokens(records) \in Seq(Int)
        /\ PassCalls(perPass) \in Seq(Int) /\ PassTokens(perPass) \in Seq(Int)
    BY <1>3, Columns
  <2> QED
    BY <2>1, TotalIsInt, PriceIsInt
<1>5. IsSummed(p)
  BY <1>2, <1>4 DEF IsSummed
<1> DEFINE more == Append(perPass, p)
<1>6. /\ IsList(more) /\ more # <<>> /\ \A n \in DOMAIN more : IsSummed(more[n])
      /\ DOMAIN more = DOMAIN perPass \cup {Len(perPass) + 1}
      /\ more[Len(perPass) + 1] = p /\ \A n \in DOMAIN perPass : more[n] = perPass[n]
      /\ Total(PassCalls(more)) = Total(PassCalls(perPass)) + p.calls
      /\ Total(PassTokens(more)) = Total(PassTokens(perPass)) + p.tokens
  BY <1>3, <1>5, PassesGrow
<1> HIDE DEF more
<1>7. perPass' = more
  BY <1>1 DEF more
<1>8. /\ IsList(allRecords') /\ Current' = Current
      /\ \A n \in DOMAIN allRecords' : IsScored(allRecords'[n])
  BY <1>1, <1>3, PutTogether, ScoredTogether DEF Current
<1>9. Typed'
  BY <1>1, <1>6, <1>7, <1>8, EmptyLists DEF Typed
<1>10. Total(PassCalls(perPass')) + Total(RecordCalls(OpenRecords')) = Len(calls')
  <2> DEFINE a == Total(PassCalls(perPass))
             b == Total(RecordCalls(records))
             c == Total(RecordCalls(OpenRecords'))
  <2>1. a \in Int /\ b \in Int /\ c = 0 /\ a + b = Len(calls)
    BY <1>1, <1>4, EmptyLists DEF Metered
  <2>2. Total(PassCalls(perPass')) = a + b
    BY <1>2, <1>6, <1>7
  <2> HIDE DEF a, b, c
  <2>3. a + b + c = a + b
    BY <2>1
  <2> QED
    BY <1>1, <2>1, <2>2, <2>3 DEF c
<1>11. ASSUME Priced(perPass', OpenRecords')
       PROVE  /\ \A n \in DOMAIN calls' : calls'[n] # Unreported
              /\ Total(PassTokens(perPass')) + Total(RecordTokens(OpenRecords')) = Total(calls')
              /\ calls' # <<>>
  <2>1. /\ \A n \in DOMAIN perPass : perPass[n].tokens # Unreported
        /\ SumOrNone(RecordTokens(records)) # Unreported
    BY <1>2, <1>6, <1>7, <1>11 DEF Priced
  <2>2. /\ \A n \in DOMAIN RecordTokens(records) : RecordTokens(records)[n] # Unreported
        /\ SumOrNone(RecordTokens(records)) = Total(RecordTokens(records))
    BY <2>1, PriceOf
  <2>3. Priced(perPass, records)
    BY <2>1, <2>2 DEF Priced, RecordTokens
  <2>4. records # <<>>
    <3>1. Len(<<>>) = 0 /\ ScenarioCount # 0
      BY EmptyLists, ScenarioCountAssumption
    <3> QED
      BY <1>1, <3>1
  <2>5. /\ \A n \in DOMAIN calls : calls[n] # Unreported /\ calls # <<>>
        /\ Total(PassTokens(perPass)) + Total(RecordTokens(records)) = Total(calls)
        /\ calls # <<>>
    BY <1>1, <2>3, <2>4 DEF Metered
  <2> DEFINE a == Total(PassTokens(perPass))
             b == Total(RecordTokens(records))
             c == Total(RecordTokens(OpenRecords'))
  <2>6. a \in Int /\ b \in Int /\ c = 0 /\ a + b = Total(calls)
    BY <1>1, <1>4, <2>2, <2>5, EmptyLists
  <2>7. Total(PassTokens(perPass')) = a + b
    BY <1>2, <1>6, <1>7, <2>2
  <2> HIDE DEF a, b, c
  <2>8. a + b + c = a + b
    BY <2>6
  <2>9. Total(PassTokens(perPass')) + Total(RecordTokens(OpenRecords')) = Total(calls')
    BY <1>1, <2>6, <2>7, <2>8 DEF c
  <2> QED
    BY <1>1, <2>5, <2>9
<1> QED
  BY <1>1, <1>8, <1>9, <1>10, <1>11 DEF Metered

(* The row of a run that ended: its calls are the run's, its tokens theirs. *)
LEMMA RowOfRun ==
  ASSUME Metered, phase = "writing", perPass # <<>>, CellWritten
  PROVE  RowPriced'
<1>1. cell' = Summary /\ calls' = calls /\ OpenRecords = <<>>
  BY DEF CellWritten, process, OpenRecords
<1>2. /\ Row(Summary).calls = Total(PassCalls(perPass))
      /\ Row(Summary).tokens = SumOrNone(PassTokens(perPass))
  <2>1. Summary.perPass = perPass
    BY DEF Summary
  <2> QED
    BY <2>1 DEF Row, Select, PassCalls, PassTokens
<1>3. Total(PassCalls(perPass)) \in Int /\ Total(PassTokens(perPass)) \in Int
  <2>1. PassCalls(perPass) \in Seq(Int) /\ PassTokens(perPass) \in Seq(Int)
    BY Columns DEF Metered, Typed
  <2> QED
    BY <2>1, TotalIsInt
<1>4. Total(RecordCalls(OpenRecords)) = 0 /\ Total(RecordTokens(OpenRecords)) = 0
  BY <1>1, EmptyLists
<1>5. Total(PassCalls(perPass)) = Len(calls)
  <2>1. Total(PassCalls(perPass)) + Total(RecordCalls(OpenRecords)) = Len(calls)
    BY DEF Metered
  <2>2. \A x \in Int : x + 0 = x
    OBVIOUS
  <2> QED
    BY <1>3, <1>4, <2>1, <2>2
<1>6. ASSUME SumOrNone(PassTokens(perPass)) # Unreported
      PROVE  SumOrNone(PassTokens(perPass)) = SumOrNone(calls)
  <2>1. /\ SumOrNone(PassTokens(perPass)) = Total(PassTokens(perPass))
        /\ \A n \in DOMAIN PassTokens(perPass) : PassTokens(perPass)[n] # Unreported
    BY <1>6, PriceOf
  <2>2. Priced(perPass, OpenRecords)
    BY <1>1, <2>1, EmptyLists DEF Priced, PassTokens
  <2>3. /\ \A n \in DOMAIN calls : calls[n] # Unreported
        /\ Total(PassTokens(perPass)) + Total(RecordTokens(OpenRecords)) = Total(calls)
        /\ calls # <<>>
    BY <2>2 DEF Metered
  <2>4. \A x \in Int : x + 0 = x
    OBVIOUS
  <2>5. SumOrNone(calls) = Total(calls)
    BY <2>3 DEF SumOrNone
  <2> QED
    BY <1>3, <1>4, <2>1, <2>3, <2>4, <2>5
<1> QED
  BY <1>1, <1>2, <1>5, <1>6 DEF RowPriced

LEMMA MeterInvStep ==
  ASSUME MeterInv, ReportInv, DirectoryInv, [Next]_vars
  PROVE  MeterInv'
<1>1. CASE Refuse
  BY <1>1 DEF Refuse, MeterInv, Fresh, Working, process, files
<1>2. CASE Start
  <2>1. calls' = <<>> /\ verifierCalls' = <<>> /\ <<>> \in Seq(Int) /\ phase' = "clear"
        /\ exit' = "none" /\ Fresh'
    BY <1>2, EmptySeq DEF Start, Fresh
  <2> QED
    BY <2>1 DEF MeterInv, Working
<1>3. CASE ClearCell
  BY <1>3 DEF ClearCell, MeterInv, Fresh, Working, process
<1>4. CASE ClearPass
  BY <1>4 DEF ClearPass, MeterInv, Fresh, Working, process
<1>5. CASE OpenPass
  <2>1. /\ phase' = "pass" /\ records' = <<>> /\ OpenRecords' = <<>> /\ exit # "0"
        /\ UNCHANGED <<perPass, allRecords, calls, verifierCalls, reasonerSeen,
                       verifierSeen, exit>>
    BY <1>5 DEF OpenPass, OpenRecords, MeterInv
  <2>2. Metered'
    <3>1. CASE phase = "stale"
      <4>1. Fresh'
        BY <2>1, <3>1 DEF MeterInv, Fresh
      <4> QED
        BY <2>1, <4>1, MeteredAtFirst
    <3>2. CASE phase = "summed"
      <4>1. Metered /\ OpenRecords = <<>>
        BY <3>2 DEF MeterInv, Working, OpenRecords
      <4> QED
        BY <2>1, <4>1, MeteredSame
    <3> QED
      BY <1>5, <3>1, <3>2 DEF OpenPass
  <2> QED
    BY <2>1, <2>2 DEF MeterInv, Working
<1>6. CASE ScenarioEnds
  <2>1. Metered'
    BY <1>6, MeteredRecord
  <2>2. calls' \in Seq(Int) /\ verifierCalls' \in Seq(Int)
    <3>1. PICK result \in Results : Score(result)
      BY <1>6 DEF ScenarioEnds
    <3>2. calls \in Seq(Int) /\ verifierCalls \in Seq(Int)
      BY DEF MeterInv
    <3>3. result.calls \in Seq(Int) /\ result.verifierCalls \in Seq(Int)
      BY ResultsAssumption
    <3>4. /\ calls' = calls \o result.calls
          /\ verifierCalls' = verifierCalls \o result.verifierCalls \/ verifierCalls' = verifierCalls
      BY <3>1 DEF Score
    <3>5. /\ calls \o result.calls \in Seq(Int)
          /\ verifierCalls \o result.verifierCalls \in Seq(Int)
      BY <3>2, <3>3
    <3> QED
      BY <3>2, <3>4, <3>5
  <2>3. phase' = "pass" /\ exit' = exit /\ exit # "0"
    BY <1>6 DEF ScenarioEnds, MeterInv
  <2> QED
    BY <2>1, <2>2, <2>3 DEF MeterInv
<1>7. CASE ScenarioRaises
  <2>1. calls' \in Seq(Int) /\ verifierCalls' \in Seq(Int)
    <3>1. PICK result \in Results :
            /\ calls' = calls \o result.calls
            /\ \/ verifierCalls' = verifierCalls \o result.verifierCalls
               \/ verifierCalls' = verifierCalls
      BY <1>7 DEF ScenarioRaises
    <3>2. /\ calls \in Seq(Int) /\ result.calls \in Seq(Int)
          /\ verifierCalls \in Seq(Int) /\ result.verifierCalls \in Seq(Int)
      BY ResultsAssumption DEF MeterInv
    <3>3. /\ calls \o result.calls \in Seq(Int)
          /\ verifierCalls \o result.verifierCalls \in Seq(Int)
      BY <3>2
    <3> QED
      BY ONLY <3>1, <3>2, <3>3
  <2> QED
    BY <1>7, <2>1 DEF ScenarioRaises, MeterInv, Working
<1>8. CASE PassEnds
  <2>1. Metered'
    BY <1>8, MeteredPass
  <2> QED
    BY <1>8, <2>1 DEF PassEnds, MeterInv, Working
<1>9. CASE CellOpened
  <2>1. /\ Metered /\ OpenRecords' = OpenRecords /\ exit # "0"
        /\ UNCHANGED <<perPass, allRecords, calls, verifierCalls, reasonerSeen,
                       verifierSeen, exit>> /\ phase' = "writing"
    BY <1>9 DEF CellOpened, MeterInv, Working, OpenRecords, process
  <2>2. Metered'
    BY <2>1, MeteredSame
  <2> QED
    BY <2>1, <2>2 DEF MeterInv, Working
<1>10. CASE CellWritten
  <2>1. Metered /\ phase = "writing"
    BY <1>10 DEF CellWritten, MeterInv, Working
  <2>2. perPass # <<>>
    <3>1. Len(perPass) = args.passes /\ ~ ConfigError(args) /\ args \in Arguments
      BY <2>1 DEF DirectoryInv, ReportInv, ArgumentsChecked
    <3>2. args.passes >= 1 /\ args.passes \in Int
      BY <3>1, ArgumentsAssumption DEF ConfigError
    <3>3. Len(<<>>) = 0
      BY EmptyLists
    <3> QED
      BY <3>1, <3>2, <3>3
  <2>3. RowPriced'
    BY <1>10, <2>1, <2>2, RowOfRun
  <2> QED
    BY <1>10, <2>3 DEF CellWritten, MeterInv, Working, process
<1>11. CASE Killed
  BY <1>11 DEF Killed, MeterInv, Working, process
<1>12. CASE Report
  <2>1. UNCHANGED <<cell, phase, exit, calls, verifierCalls, perPass, allRecords,
                    reasonerSeen, verifierSeen, records>>
    BY <1>12 DEF Report, process, files
  <2>2. OpenRecords' = OpenRecords
    BY <2>1 DEF OpenRecords
  <2>3. Metered => Metered'
    BY <2>1, <2>2, MeteredSame
  <2> QED
    BY <2>1, <2>3 DEF MeterInv, Working, Fresh, RowPriced
<1>13. CASE UNCHANGED vars
  <2>1. UNCHANGED <<cell, phase, exit, calls, verifierCalls, perPass, allRecords,
                    reasonerSeen, verifierSeen, records>>
    BY <1>13 DEF vars
  <2>2. OpenRecords' = OpenRecords
    BY <2>1 DEF OpenRecords
  <2>3. Metered => Metered'
    BY <2>1, <2>2, MeteredSame
  <2> QED
    BY <2>1, <2>3 DEF MeterInv, Working, Fresh, RowPriced
<1> QED
  BY <1>1, <1>2, <1>3, <1>4, <1>5, <1>6, <1>7, <1>8, <1>9, <1>10, <1>11, <1>12,
     <1>13 DEF Next

LEMMA MeterInvPartitions == MeterInv => UsageIsPartitioned
<1> SUFFICES ASSUME MeterInv PROVE UsageIsPartitioned
  OBVIOUS
<1>1. Current = allRecords \o (IF phase = "pass" THEN records ELSE <<>>)
  BY DEF Current, OpenRecords
<1>2. \A rs : /\ Select(rs, LAMBDA r : r.usage.calls) = RecordCalls(rs)
              /\ Select(rs, LAMBDA r : r.verifierUsage.calls) = VerifierRecordCalls(rs)
  BY DEF Select, RecordCalls, VerifierRecordCalls
<1>3. Working => /\ Total(RecordCalls(Current)) = Len(calls)
                 /\ Total(VerifierRecordCalls(Current)) = Len(verifierCalls)
  BY DEF MeterInv, Metered
<1>4. exit = "0" => RowPriced
  BY DEF MeterInv
<1> QED
  BY <1>1, <1>2, <1>3, <1>4 DEF UsageIsPartitioned, Working, RowPriced

LEMMA InitMeter == Init => MeterInv
BY EmptySeq DEF Init, MeterInv, Working, Fresh

LEMMA InitReport == Init => ReportInv
BY SummaryComplete DEF Init, ReportInv, ArgumentsChecked

(* Nothing is charged twice or lost (run_cell.py 95-115, report.py 49-70):   *)
(* at every point of a run the records' calls add up to the calls the        *)
(* providers logged, the row of a run that ended reports all of them, and a  *)
(* number of tokens in it is that of all of them.                            *)
THEOREM UsageIsComplete == Spec => []UsageIsPartitioned
BY InitMeter, InitReport, InitDirectory, MeterInvStep, ReportInvStep, DirectoryInvStep,
   MeterInvPartitions, PTL DEF Spec

-----------------------------------------------------------------------------
(* What a run scores: the inductive invariant of SummaryIsItsPasses.  The   *)
(* tallies of the passes are those of the records in their files, and the   *)
(* tally of the passed ones is also that of all records.                    *)
Marks == {"passed", "fabricating", "deliberate"}

Meets(k, r) ==
  \/ k = "passed" /\ r.passed
  \/ k = "fabricating" /\ r.fabricated > 0
  \/ k = "deliberate" /\ r.deliberate

Meeting(k, rs) == {n \in DOMAIN rs : Meets(k, rs[n])}

OnDisk(k, pf, P) == {x \in (1..P) \X (1..ScenarioCount) : Meets(k, pf[x[1]][x[2]])}

Column(k, ps) == [n \in DOMAIN ps |-> ps[n][k]]

Placed(r) == r.scenario \in 1..ScenarioCount /\ r.overlaps = (r.scenario \in Overlaps)

Tallied ==
  /\ \A n \in DOMAIN allRecords : Placed(allRecords[n])
  /\ \A n \in DOMAIN OpenRecords : Placed(OpenRecords[n])
  /\ \A n \in DOMAIN perPass : \A k \in Marks : perPass[n][k] \in Int
  /\ Len(allRecords) = ScenarioCount * Len(perPass)
  /\ perPass # <<>> =>
       \A k \in 1..ScenarioCount : \E n \in DOMAIN allRecords : allRecords[n].scenario = k
  /\ \A k \in Marks :
       Total(Column(k, perPass)) = Cardinality(OnDisk(k, passFile, Len(perPass)))
  /\ Total(Column("passed", perPass)) = Cardinality(Meeting("passed", allRecords))

TallyInv ==
  /\ Working => Tallied
  /\ SummaryIsItsPasses

(* As many after a renaming.                                                *)
LEMMA Renamed ==
  ASSUME NEW S, NEW T, IsFiniteSet(S), NEW f \in [S -> T],
         \A x, y \in S : f[x] = f[y] => x = y, \A z \in T : \E x \in S : f[x] = z
  PROVE  IsFiniteSet(T) /\ Cardinality(T) = Cardinality(S)
<1>1. f \in Surjection(S, T) /\ f \in Injection(S, T)
  BY DEF Surjection, Injection, IsInjective
<1> QED
  BY <1>1, FS_Surjection

LEMMA SumOfParts ==
  ASSUME NEW S, NEW T, IsFiniteSet(S), IsFiniteSet(T), S \cap T = {}
  PROVE  /\ IsFiniteSet(S \cup T) /\ Cardinality(S \cup T) = Cardinality(S) + Cardinality(T)
         /\ Cardinality(S) \in Nat /\ Cardinality(T) \in Nat
<1>1. Cardinality(S) \in Nat /\ Cardinality(T) \in Nat
  BY FS_CardinalityType
<1>2. /\ IsFiniteSet(S \cup T)
      /\ Cardinality(S \cup T) = Cardinality(S) + Cardinality(T) - Cardinality({})
  BY FS_Union
<1> QED
  BY <1>1, <1>2, FS_EmptySet

LEMMA MeetingFinite ==
  ASSUME NEW k, NEW rs, IsList(rs)
  PROVE  IsFiniteSet(Meeting(k, rs)) /\ Cardinality(Meeting(k, rs)) \in Nat
<1>1. DOMAIN rs = 1..Len(rs) /\ Len(rs) \in Nat
  BY DEF IsList
<1>2. IsFiniteSet(1..Len(rs)) /\ Meeting(k, rs) \in SUBSET (1..Len(rs))
  BY <1>1, FS_Interval DEF Meeting
<1> QED
  BY <1>2, FS_Subset, FS_CardinalityType

LEMMA ListPositions ==
  ASSUME NEW s, IsList(s) PROVE DOMAIN s = 1..Len(s) /\ Len(s) \in Nat
BY DEF IsList

(* What the records of one pass add to the files.                           *)
LEMMA FilesTallied ==
  ASSUME NEW k, NEW pf, NEW P \in Nat, NEW t, pf[P + 1] = t, IsList(t),
         Len(t) = ScenarioCount
  PROVE  /\ IsFiniteSet(OnDisk(k, pf, P))
         /\ Cardinality(OnDisk(k, pf, P + 1)) =
              Cardinality(OnDisk(k, pf, P)) + Cardinality(Meeting(k, t))
<1> DEFINE N == ScenarioCount
           A == OnDisk(k, pf, P)
           K == Meeting(k, t)
           B == {x \in {P + 1} \X (1..N) : Meets(k, pf[x[1]][x[2]])}
           f == [n \in K |-> <<P + 1, n>>]
<1>1. N \in Nat /\ DOMAIN t = 1..N
  <2>1. DOMAIN t = 1..Len(t)
    BY ListPositions
  <2> QED
    BY <2>1, ScenarioCountAssumption
<1>2. IsFiniteSet(A)
  <2>1. IsFiniteSet((1..P) \X (1..N))
    <3>1. IsFiniteSet(1..P) /\ IsFiniteSet(1..N)
      BY <1>1, FS_Interval
    <3> QED
      BY <3>1, FS_Product
  <2>2. A \in SUBSET ((1..P) \X (1..N))
    BY DEF OnDisk
  <2> QED
    BY <2>1, <2>2, FS_Subset
<1>3. IsFiniteSet(K)
  BY MeetingFinite
<1>4. IsFiniteSet(B) /\ Cardinality(B) = Cardinality(K)
  <2>1. f \in [K -> B] /\ \A z \in B : \E n \in K : f[n] = z
    BY <1>1 DEF Meeting
  <2>2. \A m, n \in K : f[m] = f[n] => m = n
    OBVIOUS
  <2> HIDE DEF f, K, B
  <2> QED
    BY <1>3, <2>1, <2>2, Renamed
<1>5. OnDisk(k, pf, P + 1) = A \cup B /\ A \cap B = {}
  <2>1. 1..(P + 1) = 1..P \cup {P + 1} /\ P + 1 \notin 1..P
    OBVIOUS
  <2>2. (1..(P + 1)) \X (1..N) = ((1..P) \X (1..N)) \cup ({P + 1} \X (1..N))
    BY <2>1
  <2>3. ((1..P) \X (1..N)) \cap ({P + 1} \X (1..N)) = {}
    BY <2>1
  <2> QED
    BY <2>2, <2>3 DEF OnDisk
<1> HIDE DEF A, B, K, N
<1> QED
  BY <1>2, <1>3, <1>4, <1>5, SumOfParts DEF A, K

(* What they add to the list of all records.                                     *)
LEMMA RecordsTallied ==
  ASSUME NEW k, NEW s, NEW t, IsList(s), IsList(t)
  PROVE  Cardinality(Meeting(k, s \o t)) = Cardinality(Meeting(k, s)) + Cardinality(Meeting(k, t))
<1> DEFINE a == Len(s)
           A == Meeting(k, s)
           K == Meeting(k, t)
           B == {n \in (a + 1)..(a + Len(t)) : Meets(k, (s \o t)[n])}
           f == [n \in K |-> a + n]
<1>1. /\ a \in Nat /\ Len(t) \in Nat /\ DOMAIN s = 1..a /\ DOMAIN t = 1..Len(t)
      /\ DOMAIN (s \o t) = 1..(a + Len(t))
      /\ \A n \in 1..a : (s \o t)[n] = s[n]
      /\ \A n \in 1..Len(t) : (s \o t)[a + n] = t[n]
  BY PutTogether
<1>2. IsFiniteSet(A) /\ IsFiniteSet(K)
  BY MeetingFinite
<1>3. K \subseteq 1..Len(t) /\ K \subseteq Int
  BY <1>1 DEF Meeting
<1>4. IsFiniteSet(B) /\ Cardinality(B) = Cardinality(K)
  <2>1. f \in [K -> B]
    <3>1. \A n \in K : a + n \in (a + 1)..(a + Len(t)) /\ Meets(k, (s \o t)[a + n])
      BY <1>1, <1>3 DEF Meeting
    <3> QED
      BY <3>1
  <2>2. \A z \in B : \E n \in K : f[n] = z
    <3> TAKE z \in B
    <3>1. z \in Int /\ z - a \in 1..Len(t) /\ z = a + (z - a)
      BY <1>1
    <3>2. z - a \in K
      BY <1>1, <3>1 DEF Meeting
    <3> QED
      BY <3>1, <3>2
  <2>3. \A m, n \in K : f[m] = f[n] => m = n
    BY <1>1, <1>3
  <2> HIDE DEF f, K, B
  <2> QED
    BY <1>2, <2>1, <2>2, <2>3, Renamed
<1>5. Meeting(k, s \o t) = A \cup B /\ A \cap B = {}
  <2>1. /\ 1..(a + Len(t)) = 1..a \cup (a + 1)..(a + Len(t))
        /\ 1..a \cap (a + 1)..(a + Len(t)) = {}
    BY <1>1
  <2> HIDE DEF a
  <2> QED
    BY <1>1, <2>1 DEF Meeting
<1> HIDE DEF A, B, K, a
<1> QED
  BY <1>2, <1>4, <1>5, SumOfParts DEF A, K

LEMMA SummaryTallies ==
  ASSUME NEW rs, NEW k \in Marks
  PROVE  PassSummary(rs)[k] = Cardinality(Meeting(k, rs))
<1>1. CASE k = "passed"
  <2>1. PassSummary(rs)[k] = Cardinality({n \in DOMAIN rs : rs[n].passed})
    BY <1>1 DEF PassSummary, Count
  <2>2. Meeting(k, rs) = {n \in DOMAIN rs : rs[n].passed}
    BY <1>1 DEF Meeting, Meets
  <2> QED
    BY <2>1, <2>2
<1>2. CASE k = "fabricating"
  <2>1. PassSummary(rs)[k] = Cardinality({n \in DOMAIN rs : rs[n].fabricated > 0})
    BY <1>2 DEF PassSummary, Count
  <2>2. Meeting(k, rs) = {n \in DOMAIN rs : rs[n].fabricated > 0}
    BY <1>2 DEF Meeting, Meets
  <2> QED
    BY <2>1, <2>2
<1>3. CASE k = "deliberate"
  <2>1. PassSummary(rs)[k] = Cardinality({n \in DOMAIN rs : rs[n].deliberate})
    BY <1>3 DEF PassSummary, Count
  <2>2. Meeting(k, rs) = {n \in DOMAIN rs : rs[n].deliberate}
    BY <1>3 DEF Meeting, Meets
  <2> QED
    BY <2>1, <2>2
<1> QED
  BY <1>1, <1>2, <1>3 DEF Marks

LEMMA ColumnGrows ==
  ASSUME NEW k, NEW ps, IsList(ps), \A n \in DOMAIN ps : ps[n][k] \in Int,
         NEW p, p[k] \in Int
  PROVE  Total(Column(k, Append(ps, p))) = Total(Column(k, ps)) + p[k]
<1> DEFINE all == Append(ps, p)
           N == Len(ps)
<1>1. /\ IsList(all) /\ all # <<>> /\ Len(all) = N + 1 /\ N \in Nat /\ DOMAIN ps = 1..N
      /\ DOMAIN all = 1..(N + 1) /\ all[N + 1] = p /\ \A n \in 1..N : all[n] = ps[n]
  BY OneMore
<1> HIDE DEF all, N
<1>2. 1..(N + 1) = 1..N \cup {N + 1}
  BY <1>1
<1>3. /\ Column(k, ps) \in [1..N -> Int] /\ Column(k, all) \in [1..(N + 1) -> Int]
      /\ \A n \in 1..N : Column(k, all)[n] = Column(k, ps)[n]
      /\ Column(k, all)[N + 1] = p[k]
  BY <1>1, <1>2 DEF Column
<1> QED
  BY <1>1, <1>3, TotalGrows DEF all

LEMMA TalliedAtFirst ==
  ASSUME NEW pf, NEW k
  PROVE  /\ Column(k, <<>>) = <<>> /\ Cardinality(OnDisk(k, pf, 0)) = 0
         /\ Cardinality(Meeting(k, <<>>)) = 0
<1>1. OnDisk(k, pf, 0) = {} /\ Meeting(k, <<>>) = {}
  BY EmptyLists DEF OnDisk, Meeting
<1>2. Column(k, <<>>) = <<>>
  <2>1. Column(k, <<>>) \in [1..0 -> Int]
    BY EmptyLists DEF Column
  <2>2. Column(k, <<>>) \in Seq(Int) /\ Len(Column(k, <<>>)) = 0
    BY <2>1
  <2> QED
    BY <2>2, EmptySeq
<1> QED
  BY <1>1, <1>2, FS_EmptySet

(* The files of the passes that are done do not change.                     *)
LEMMA TalliedSame ==
  ASSUME Tallied, Typed, UNCHANGED <<perPass, allRecords>>,
         \A n \in DOMAIN OpenRecords' : Placed(OpenRecords'[n]),
         \A p \in 1..Len(perPass) : passFile'[p] = passFile[p]
  PROVE  Tallied'
<1>1. \A k : OnDisk(k, passFile', Len(perPass)) = OnDisk(k, passFile, Len(perPass))
  BY DEF OnDisk
<1> QED
  BY <1>1 DEF Tallied, Placed

LEMMA TalliedOpened ==
  ASSUME TallyInv, MeterInv, DirectoryInv, OpenPass
  PROVE  Tallied'
<1>1. /\ records' = <<>> /\ phase' = "pass" /\ OpenRecords' = <<>>
      /\ UNCHANGED <<perPass, allRecords>>
  BY DEF OpenPass, OpenRecords
<1>2. \A n \in DOMAIN OpenRecords' : Placed(OpenRecords'[n])
  BY <1>1, EmptyLists
<1>3. CASE phase = "stale"
  <2>1. perPass = <<>> /\ allRecords = <<>>
    BY <1>3 DEF MeterInv, Fresh
  <2>2. ScenarioCount * 0 = 0
    BY ScenarioCountAssumption
  <2> QED
    BY <1>1, <1>2, <2>1, <2>2, EmptyLists, TalliedAtFirst DEF Tallied
<1>4. CASE phase = "summed"
  <2>1. /\ Tallied /\ Typed /\ DOMAIN passFile = 1..Len(perPass) /\ Len(perPass) \in Nat
    BY <1>4 DEF TallyInv, MeterInv, Metered, Working, DirectoryInv
  <2>2. \A p \in 1..Len(perPass) : passFile'[p] = passFile[p]
    BY <2>1 DEF OpenPass, PassIndex
  <2> QED
    BY <1>1, <1>2, <2>1, <2>2, TalliedSame
<1> QED
  BY <1>3, <1>4 DEF OpenPass

LEMMA TalliedRecord ==
  ASSUME TallyInv, MeterInv, DirectoryInv, ScenarioEnds
  PROVE  Tallied'
<1>1. /\ phase = "pass" /\ phase' = "pass" /\ Tallied /\ Typed /\ OpenRecords = records
      /\ OpenRecords' = records' /\ Len(records) < ScenarioCount
      /\ UNCHANGED <<perPass, allRecords>>
      /\ DOMAIN passFile = 1..PassIndex /\ PassIndex = Len(perPass) + 1
      /\ Len(perPass) \in Nat
  BY DEF ScenarioEnds, TallyInv, MeterInv, Metered, Working, OpenRecords, DirectoryInv,
         InPass, PassIndex
<1>2. PICK record : /\ record.scenario = Len(records) + 1
                    /\ record.overlaps = (record.scenario \in Overlaps)
                    /\ records' = Append(records, record)
                    /\ passFile' = [passFile EXCEPT ![PassIndex] = Append(@, record)]
  BY DEF ScenarioEnds, Score, ScenarioRecord
<1>3. /\ IsList(records) /\ Len(records) \in Nat
      /\ DOMAIN records = 1..Len(records)
  BY <1>1, ListPositions DEF Typed
<1>4. Placed(record)
  BY <1>1, <1>2, <1>3, ScenarioCountAssumption DEF Placed
<1>5. \A n \in DOMAIN records' : Placed(records'[n])
  <2>1. \A n \in DOMAIN records : Placed(records[n])
    BY <1>1 DEF Tallied
  <2> DEFINE more == Append(records, record)
  <2>2. /\ DOMAIN more = 1..(Len(records) + 1) /\ more[Len(records) + 1] = record
        /\ \A n \in 1..Len(records) : more[n] = records[n]
    BY <1>3, OneMore
  <2> HIDE DEF more
  <2>3. \A n \in 1..(Len(records) + 1) : n \in 1..Len(records) \/ n = Len(records) + 1
    BY <1>3
  <2>4. \A n \in DOMAIN more : Placed(more[n])
    BY <1>3, <1>4, <2>1, <2>2, <2>3
  <2> QED
    BY <1>2, <2>4 DEF more
<1>6. \A p \in 1..Len(perPass) : passFile'[p] = passFile[p]
  BY <1>1, <1>2
<1> QED
  BY <1>1, <1>5, <1>6, TalliedSame

LEMMA TalliedPass ==
  ASSUME TallyInv, MeterInv, DirectoryInv, PassEnds
  PROVE  Tallied'
<1> DEFINE p == PassSummary(records)
           P == Len(perPass)
           more == Append(perPass, p)
           all == allRecords \o records
<1>1. /\ Tallied /\ Typed /\ OpenRecords = records /\ OpenRecords' = <<>>
      /\ Len(records) = ScenarioCount /\ passFile' = passFile
      /\ perPass' = more /\ allRecords' = all
      /\ passFile[P + 1] = records
      /\ \A n \in 1..Len(records) : records[n].scenario = n
  BY DEF PassEnds, TallyInv, MeterInv, Metered, Working, OpenRecords, DirectoryInv,
         InPass, PassIndex, RecordsSoFar, IsRecord, files
<1>2. /\ IsList(records) /\ IsList(allRecords) /\ IsList(perPass)
      /\ P \in Nat /\ Len(records) \in Nat /\ Len(allRecords) \in Nat
      /\ DOMAIN records = 1..Len(records) /\ DOMAIN allRecords = 1..Len(allRecords)
      /\ DOMAIN perPass = 1..P
  BY <1>1, ListPositions DEF Typed
<1>3. \A k \in Marks : p[k] = Cardinality(Meeting(k, records)) /\ p[k] \in Int
  BY <1>2, SummaryTallies, MeetingFinite
<1> HIDE DEF p
<1>4. /\ Len(more) = P + 1 /\ DOMAIN more = 1..(P + 1) /\ more # <<>>
      /\ \A n \in DOMAIN more : \A k \in Marks : more[n][k] \in Int
  <2>1. /\ Len(more) = P + 1 /\ DOMAIN more = 1..(P + 1) /\ more # <<>>
        /\ more[P + 1] = p /\ \A n \in 1..P : more[n] = perPass[n]
    BY <1>2, OneMore
  <2> HIDE DEF more
  <2>2. \A n \in 1..(P + 1) : n \in 1..P \/ n = P + 1
    BY <1>2
  <2>3. \A n \in 1..P : \A k \in Marks : perPass[n][k] \in Int
    BY <1>1, <1>2 DEF Tallied
  <2> QED
    BY <1>3, <2>1, <2>2, <2>3
<1>5. /\ Len(all) = Len(allRecords) + Len(records) /\ DOMAIN all = 1..Len(all)
      /\ \A n \in 1..Len(allRecords) : all[n] = allRecords[n]
      /\ \A n \in 1..Len(records) : all[Len(allRecords) + n] = records[n]
  BY <1>2, PutTogether
<1>6. \A k \in Marks :
         /\ Total(Column(k, more)) = Total(Column(k, perPass)) + Cardinality(Meeting(k, records))
         /\ Cardinality(OnDisk(k, passFile, P + 1)) =
              Cardinality(OnDisk(k, passFile, P)) + Cardinality(Meeting(k, records))
  <2> TAKE k \in Marks
  <2>1. \A n \in DOMAIN perPass : perPass[n][k] \in Int
    BY <1>1 DEF Tallied
  <2>2. Total(Column(k, more)) = Total(Column(k, perPass)) + p[k]
    BY <1>2, <1>3, <2>1, ColumnGrows
  <2>3. Cardinality(OnDisk(k, passFile, P + 1)) =
          Cardinality(OnDisk(k, passFile, P)) + Cardinality(Meeting(k, passFile[P + 1]))
    <3>1. IsList(passFile[P + 1]) /\ Len(passFile[P + 1]) = ScenarioCount
      BY <1>1, <1>2
    <3> QED
      BY <1>2, <3>1, FilesTallied
  <2> QED
    BY <1>1, <1>3, <2>2, <2>3
<1>7. Cardinality(Meeting("passed", all)) =
        Cardinality(Meeting("passed", allRecords)) + Cardinality(Meeting("passed", records))
  BY <1>2, RecordsTallied
<1> HIDE DEF more, all, P
<1>8. \A n \in DOMAIN all : Placed(all[n])
  <2>1. /\ \A n \in 1..Len(allRecords) : Placed(allRecords[n])
        /\ \A n \in 1..Len(records) : Placed(records[n])
    BY <1>1, <1>2 DEF Tallied
  <2> TAKE n \in DOMAIN all
  <2>2. CASE n \in 1..Len(allRecords)
    BY <1>5, <2>1, <2>2
  <2>3. CASE n \notin 1..Len(allRecords)
    <3>1. n - Len(allRecords) \in 1..Len(records) /\ Len(allRecords) + (n - Len(allRecords)) = n
      BY <1>2, <1>5, <2>3
    <3> QED
      BY <1>5, <2>1, <3>1
  <2> QED
    BY <2>2, <2>3
<1>9. \A k \in 1..ScenarioCount : \E n \in DOMAIN all : all[n].scenario = k
  <2> TAKE k \in 1..ScenarioCount
  <2>1. Len(allRecords) + k \in DOMAIN all /\ all[Len(allRecords) + k].scenario = k
    BY <1>1, <1>2, <1>5
  <2> QED
    BY <2>1
<1>10. Len(all) = ScenarioCount * (P + 1)
  <2>1. Len(allRecords) = ScenarioCount * P
    BY <1>1 DEF Tallied, P
  <2>2. \A a, b \in Nat : a * (b + 1) = a * b + a
    OBVIOUS
  <2> QED
    BY <1>1, <1>2, <1>5, <2>1, <2>2, ScenarioCountAssumption
<1>11. /\ \A k \in Marks : Total(Column(k, perPass)) = Cardinality(OnDisk(k, passFile, P))
       /\ Total(Column("passed", perPass)) = Cardinality(Meeting("passed", allRecords))
       /\ "passed" \in Marks
  BY <1>1 DEF Tallied, P, Marks
<1> QED
  BY <1>1, <1>4, <1>6, <1>7, <1>8, <1>9, <1>10, <1>11, EmptyLists DEF Tallied

(* The two sides of the core split put together.                            *)
LEMMA SidesTogether ==
  ASSUME NEW rs, IsList(rs), \A n \in DOMAIN rs : Placed(rs[n])
  PROVE  /\ CoreSplit(rs, TRUE).passed + CoreSplit(rs, FALSE).passed =
              Cardinality(Meeting("passed", rs))
         /\ CoreSplit(rs, TRUE).of + CoreSplit(rs, FALSE).of = Len(rs)
         /\ (\A k \in 1..ScenarioCount : \E n \in DOMAIN rs : rs[n].scenario = k) =>
              CoreSplit(rs, TRUE).scenarios + CoreSplit(rs, FALSE).scenarios = ScenarioCount
<1> DEFINE A == {n \in DOMAIN rs : rs[n].overlaps = TRUE}
           B == {n \in DOMAIN rs : rs[n].overlaps = FALSE}
<1>1. /\ DOMAIN rs = 1..Len(rs) /\ Len(rs) \in Nat /\ IsFiniteSet(1..Len(rs))
      /\ Cardinality(1..Len(rs)) = Len(rs)
  <2>1. DOMAIN rs = 1..Len(rs) /\ Len(rs) \in Nat
    BY ListPositions
  <2>2. \A n \in Nat : IsFiniteSet(1..n) /\ Cardinality(1..n) = n
    BY FS_Interval
  <2> QED
    BY <2>1, <2>2
<1>2. /\ CoreSplit(rs, TRUE).passed = Cardinality({n \in A : rs[n].passed})
      /\ CoreSplit(rs, FALSE).passed = Cardinality({n \in B : rs[n].passed})
      /\ CoreSplit(rs, TRUE).of = Cardinality(A) /\ CoreSplit(rs, FALSE).of = Cardinality(B)
      /\ CoreSplit(rs, TRUE).scenarios = Cardinality({rs[n].scenario : n \in A})
      /\ CoreSplit(rs, FALSE).scenarios = Cardinality({rs[n].scenario : n \in B})
  BY DEF CoreSplit
<1>3. /\ \A n \in DOMAIN rs : rs[n].scenario \in Overlaps => n \in A /\ n \notin B
      /\ \A n \in DOMAIN rs : rs[n].scenario \notin Overlaps => n \in B /\ n \notin A
  <2> SUFFICES ASSUME NEW n \in DOMAIN rs
               PROVE  /\ rs[n].scenario \in Overlaps => n \in A /\ n \notin B
                      /\ rs[n].scenario \notin Overlaps => n \in B /\ n \notin A
    OBVIOUS
  <2>1. rs[n].overlaps = (rs[n].scenario \in Overlaps)
    BY DEF Placed
  <2>2. CASE rs[n].scenario \in Overlaps
    <3>1. rs[n].overlaps = TRUE
      BY <2>1, <2>2
    <3> QED
      BY <2>2, <3>1
  <2>3. CASE rs[n].scenario \notin Overlaps
    <3>1. (rs[n].scenario \in Overlaps) = FALSE
      BY <2>3
    <3>2. rs[n].overlaps = FALSE
      BY ONLY <2>1, <3>1, Zenon
    <3> QED
      BY <2>3, <3>2
  <2> QED
    BY <2>2, <2>3
<1>4. A \subseteq DOMAIN rs /\ B \subseteq DOMAIN rs
  OBVIOUS
<1>5. A \cup B = DOMAIN rs /\ A \cap B = {}
  BY <1>3
<1> HIDE DEF A, B
<1>6. IsFiniteSet(A) /\ IsFiniteSet(B)
  <2>1. A \in SUBSET (1..Len(rs)) /\ B \in SUBSET (1..Len(rs))
    BY <1>1, <1>5
  <2> QED
    BY <1>1, <2>1, FS_Subset
<1>7. CoreSplit(rs, TRUE).of + CoreSplit(rs, FALSE).of = Len(rs)
  <2>1. Cardinality(A \cup B) = Cardinality(A) + Cardinality(B)
    BY <1>5, <1>6, SumOfParts
  <2> QED
    BY <1>1, <1>2, <1>5, <2>1
<1>8. CoreSplit(rs, TRUE).passed + CoreSplit(rs, FALSE).passed =
        Cardinality(Meeting("passed", rs))
  <2> DEFINE P == {n \in A : rs[n].passed}
             Q == {n \in B : rs[n].passed}
  <2>1. P \cup Q = Meeting("passed", rs) /\ P \cap Q = {}
    BY <1>5 DEF Meeting, Meets
  <2>2. IsFiniteSet(P) /\ IsFiniteSet(Q)
    <3>1. P \in SUBSET A /\ Q \in SUBSET B
      OBVIOUS
    <3> QED
      BY <1>6, <3>1, FS_Subset
  <2>3. Cardinality(P \cup Q) = Cardinality(P) + Cardinality(Q)
    <3> HIDE DEF P, Q
    <3> QED
      BY <2>1, <2>2, SumOfParts
  <2> QED
    BY <1>2, <2>1, <2>3
<1>9. ASSUME \A k \in 1..ScenarioCount : \E n \in DOMAIN rs : rs[n].scenario = k
      PROVE  CoreSplit(rs, TRUE).scenarios + CoreSplit(rs, FALSE).scenarios = ScenarioCount
  <2> DEFINE P == {rs[n].scenario : n \in A}
             Q == {rs[n].scenario : n \in B}
             N == ScenarioCount
  <2>1. P \cup Q = 1..N /\ P \cap Q = {}
    <3>1. \A n \in DOMAIN rs : rs[n].scenario \in 1..N
      BY DEF Placed
    <3>2. P \subseteq Overlaps /\ Q \cap Overlaps = {}
      BY <1>3, <1>4, <1>5
    <3>3. P \subseteq 1..N /\ Q \subseteq 1..N
      BY <1>5, <3>1
    <3>4. 1..N \subseteq P \cup Q
      BY <1>5, <1>9
    <3> HIDE DEF P, Q
    <3> QED
      BY <3>2, <3>3, <3>4
  <2>2. IsFiniteSet(1..N) /\ Cardinality(1..N) = N
    BY ScenarioCountAssumption, FS_Interval
  <2> HIDE DEF P, Q
  <2>3. IsFiniteSet(P) /\ IsFiniteSet(Q)
    <3>1. P \in SUBSET (1..N) /\ Q \in SUBSET (1..N)
      BY <2>1
    <3> QED
      BY <2>2, <3>1, FS_Subset
  <2>4. Cardinality(P \cup Q) = Cardinality(P) + Cardinality(Q)
    BY <2>1, <2>3, SumOfParts
  <2> QED
    BY <1>2, <2>1, <2>2, <2>4 DEF P, Q
<1> QED
  BY <1>7, <1>8, <1>9

LEMMA SummaryFields ==
  /\ Summary.passed = Total(Column("passed", perPass))
  /\ Summary.fabricating = Total(Column("fabricating", perPass))
  /\ Summary.recall = Unreported \/ Summary.recall = Total(Column("deliberate", perPass))
  /\ Summary.overlapping = CoreSplit(allRecords, TRUE)
  /\ Summary.fresh = CoreSplit(allRecords, FALSE)
BY DEF Summary, Select, Column

(* The summary that is written is of the files that are there.              *)
LEMMA TotalsWritten ==
  ASSUME TallyInv, MeterInv, ReportInv, DirectoryInv, CellWritten
  PROVE  SummaryIsItsPasses'
<1>1. /\ Tallied /\ Typed /\ phase = "writing" /\ passFile' = passFile /\ cell' = Summary
      /\ DOMAIN passFile = 1..Len(perPass) /\ Len(perPass) = args.passes
  BY DEF CellWritten, TallyInv, MeterInv, Metered, Working, DirectoryInv
<1>2. perPass # <<>>
  <2>1. ~ ConfigError(args) /\ args \in Arguments
    BY <1>1 DEF ReportInv, ArgumentsChecked
  <2>2. args.passes >= 1 /\ args.passes \in Int
    BY <2>1, ArgumentsAssumption DEF ConfigError
  <2>3. Len(<<>>) = 0
    BY EmptyLists
  <2> QED
    BY <1>1, <2>2, <2>3
<1> DEFINE On == {<<p, n>> : p \in DOMAIN passFile, n \in 1..ScenarioCount}
<1>3. /\ {x \in On : passFile[x[1]][x[2]].passed} = OnDisk("passed", passFile, Len(perPass))
      /\ {x \in On : passFile[x[1]][x[2]].fabricated > 0} =
           OnDisk("fabricating", passFile, Len(perPass))
      /\ {x \in On : passFile[x[1]][x[2]].deliberate} =
           OnDisk("deliberate", passFile, Len(perPass))
  <2>1. On = (1..Len(perPass)) \X (1..ScenarioCount)
    BY <1>1
  <2> HIDE DEF On
  <2> QED
    BY <2>1 DEF OnDisk, Meets
<1>4. /\ Summary.passed = Cardinality({x \in On : passFile[x[1]][x[2]].passed})
      /\ Summary.fabricating = Cardinality({x \in On : passFile[x[1]][x[2]].fabricated > 0})
      /\ Summary.recall # Unreported =>
           Summary.recall = Cardinality({x \in On : passFile[x[1]][x[2]].deliberate})
  <2>1. \A k \in {"passed", "fabricating", "deliberate"} :
          Total(Column(k, perPass)) = Cardinality(OnDisk(k, passFile, Len(perPass)))
    BY <1>1 DEF Tallied, Marks
  <2> HIDE DEF On
  <2> QED
    BY <1>3, <2>1, SummaryFields
<1>5. /\ Summary.overlapping.passed + Summary.fresh.passed = Summary.passed
      /\ Summary.overlapping.of + Summary.fresh.of = ScenarioCount * Summary.args.passes
      /\ Summary.overlapping.scenarios + Summary.fresh.scenarios = ScenarioCount
  <2>1. /\ IsList(allRecords) /\ \A n \in DOMAIN allRecords : Placed(allRecords[n])
        /\ \A k \in 1..ScenarioCount : \E n \in DOMAIN allRecords : allRecords[n].scenario = k
        /\ Total(Column("passed", perPass)) = Cardinality(Meeting("passed", allRecords))
        /\ Len(allRecords) = ScenarioCount * Len(perPass)
    BY <1>1, <1>2 DEF Typed, Tallied
  <2>2. Summary.args = args
    BY SummaryComplete
  <2> QED
    BY <1>1, <2>1, <2>2, SidesTogether, SummaryFields
<1>6. FilesAreItsRun'
  <2>1. DirectoryInv'
    BY DirectoryInvStep DEF Next
  <2> QED
    BY <2>1 DEF DirectoryInv
<1> HIDE DEF On
<1> DEFINE Now == {<<p, n>> : p \in DOMAIN passFile', n \in 1..ScenarioCount}
<1>7. Now = On
  BY <1>1 DEF On
<1> HIDE DEF Now
<1>8. /\ {x \in Now : passFile'[x[1]][x[2]].passed} = {x \in On : passFile[x[1]][x[2]].passed}
      /\ {x \in Now : passFile'[x[1]][x[2]].fabricated > 0} =
           {x \in On : passFile[x[1]][x[2]].fabricated > 0}
      /\ {x \in Now : passFile'[x[1]][x[2]].deliberate} =
           {x \in On : passFile[x[1]][x[2]].deliberate}
  BY <1>1, <1>7
<1>9. /\ cell'.passed = Cardinality({x \in Now : passFile'[x[1]][x[2]].passed})
      /\ cell'.fabricating = Cardinality({x \in Now : passFile'[x[1]][x[2]].fabricated > 0})
      /\ cell'.recall # Unreported =>
           cell'.recall = Cardinality({x \in Now : passFile'[x[1]][x[2]].deliberate})
      /\ cell'.overlapping.passed + cell'.fresh.passed = cell'.passed
      /\ cell'.overlapping.of + cell'.fresh.of = ScenarioCount * cell'.args.passes
      /\ cell'.overlapping.scenarios + cell'.fresh.scenarios = ScenarioCount
  BY <1>1, <1>4, <1>5, <1>8
<1> QED
  BY <1>6, <1>9 DEF SummaryIsItsPasses, Now

LEMMA SummaryKept ==
  ASSUME SummaryIsItsPasses,
         UNCHANGED <<cell, passFile>>
  PROVE  SummaryIsItsPasses'
BY DEF SummaryIsItsPasses, FilesAreItsRun

LEMMA SummaryGone ==
  ASSUME ~ Complete(cell'), FilesAreItsRun'
  PROVE  SummaryIsItsPasses'
BY DEF SummaryIsItsPasses

LEMMA TallyInvStep ==
  ASSUME TallyInv, MeterInv, ReportInv, DirectoryInv, [Next]_vars
  PROVE  TallyInv'
<1>1. FilesAreItsRun'
  <2>1. DirectoryInv'
    BY DirectoryInvStep
  <2> QED
    BY <2>1 DEF DirectoryInv
<1>2. CASE Refuse
  BY <1>2, SummaryKept DEF Refuse, TallyInv, Working, files
<1>3. CASE Start
  BY <1>3, SummaryKept DEF Start, TallyInv, Working, files
<1>4. CASE ClearCell
  <2>1. phase' = "stale" /\ ~ Complete(cell')
    BY <1>4, SummaryComplete DEF ClearCell
  <2> QED
    BY <1>1, <2>1, SummaryGone DEF TallyInv, Working
<1>5. CASE ClearPass
  <2>1. phase' = "stale" /\ ~ Complete(cell')
    BY <1>5 DEF ClearPass, DirectoryInv
  <2> QED
    BY <1>1, <2>1, SummaryGone DEF TallyInv, Working
<1>6. CASE OpenPass
  <2>1. ~ Complete(cell')
    BY <1>6 DEF OpenPass, DirectoryInv
  <2> QED
    BY <1>1, <1>6, <2>1, SummaryGone, TalliedOpened DEF TallyInv
<1>7. CASE ScenarioEnds
  <2>1. ~ Complete(cell')
    BY <1>7 DEF ScenarioEnds, DirectoryInv
  <2> QED
    BY <1>1, <1>7, <2>1, SummaryGone, TalliedRecord DEF TallyInv
<1>8. CASE ScenarioRaises
  BY <1>8, SummaryKept DEF ScenarioRaises, TallyInv, Working, files
<1>9. CASE PassEnds
  <2>1. UNCHANGED <<cell, passFile>>
    BY <1>9 DEF PassEnds, files
  <2> QED
    BY <1>9, <2>1, SummaryKept, TalliedPass DEF TallyInv
<1>10. CASE CellOpened
  <2>1. /\ Tallied /\ Typed /\ OpenRecords' = OpenRecords
        /\ UNCHANGED <<perPass, allRecords, passFile>> /\ ~ Complete(cell')
    BY <1>10, SummaryComplete
       DEF CellOpened, TallyInv, MeterInv, Metered, Working, OpenRecords, process
  <2>2. Tallied'
    BY <2>1, TalliedSame DEF Tallied
  <2> QED
    BY <1>1, <2>1, <2>2, SummaryGone DEF TallyInv
<1>11. CASE CellWritten
  <2>1. phase' = "idle"
    BY <1>11 DEF CellWritten
  <2> QED
    BY <1>11, <2>1, TotalsWritten DEF TallyInv, Working
<1>12. CASE Killed
  BY <1>12, SummaryKept DEF Killed, TallyInv, Working, files
<1>13. CASE Report \/ UNCHANGED vars
  <2>1. UNCHANGED <<cell, passFile, phase, perPass, allRecords, records>>
    BY <1>13 DEF Report, files, process, vars
  <2>2. OpenRecords' = OpenRecords
    BY <2>1 DEF OpenRecords
  <2>3. Working' => Tallied'
    BY <2>1, <2>2, TalliedSame DEF TallyInv, MeterInv, Metered, Tallied, Working
  <2> QED
    BY <2>1, <2>3, SummaryKept DEF TallyInv
<1> QED
  BY <1>2, <1>3, <1>4, <1>5, <1>6, <1>7, <1>8, <1>9, <1>10, <1>11, <1>12, <1>13 DEF Next

(* The summary is of its files (run_cell.py 182-230 and 390-434): for a cell *)
(* that has one, the totals it gives are those one counts in the records on  *)
(* the disk, and its two sides of the core split are all of the scenarios,   *)
(* of the records and of the passed ones.                                    *)
THEOREM TotalsAreOnDisk == Spec => []SummaryIsItsPasses
<1>1. Init => TallyInv
  BY InitDirectory, SummaryComplete
     DEF Init, TallyInv, Working, SummaryIsItsPasses, DirectoryInv
<1>2. TallyInv => SummaryIsItsPasses
  BY DEF TallyInv
<1> QED
  BY <1>1, <1>2, InitMeter, InitReport, InitDirectory, TallyInvStep, MeterInvStep,
     ReportInvStep, DirectoryInvStep, PTL DEF Spec
=============================================================================
