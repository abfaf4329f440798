---------------------------- MODULE LcovReports ----------------------------
(***************************************************************************)
(* The scripts that read LCOV .info files: scripts/coverage_report.py and  *)
(* those of phases 1 and 2 under .github/plan/dvcon/results.  A step is    *)
(* one line of the file, read by all of them.                              *)
(*                                                                         *)
(* A path is [dir, base]; coverage_report.py keeps the files whose path    *)
(* begins with that of rtl/ and files them under their base name; phase 1  *)
(* looks for a base name, phase 2 for the module's name anywhere in the    *)
(* path.                                                                   *)
(***************************************************************************)
EXTENDS Integers, Sequences, FiniteSetsExt

CONSTANTS
  Paths,        \* the paths the .info file may name
  Target,       \* the base name that phase 1 looks for
  Naming,       \* the paths that have the module's name somewhere
  LineNos,      \* line numbers
  NoPath,
  MaxRecords,   \* bound on the records of the file
  MaxBranches   \* bound on the branches of a file

ASSUME LcovAssumption ==
  /\ Paths \subseteq [dir : STRING, base : STRING] /\ IsFiniteSet(Paths)
  /\ NoPath \notin Paths
  /\ Naming \subseteq Paths /\ \A path \in Paths : path.base = Target => path \in Naming
  /\ MaxRecords \in Nat /\ MaxBranches \in Nat

UnderRtl(path) == path.dir \in {"rtl", "rtl/buggy"}
Bases == {path.base : path \in Paths}

VARIABLES
  sf,         \* the record being read: its path, or NoPath
  records,    \* records begun
  cov,        \* coverage_report.py: base -> its FileCov
  da, got,    \* cov_summary.py: line -> hits of the current record; its answer
  run_da,     \* gen_coverage.py: [hit, total] of the record, LH and LF
  answered,   \* gen_coverage.py has left its loop
  seen,       \* ghost: DA lines read, as [record, path, line, hit]
  of_target,  \* ghost: the paths of the records of the target
  of_naming,  \* ghost: the paths of the records that phase 2 takes for it
  missed_br   \* ghost: base names of RTL files with a branch not taken

lcovVars == <<sf, records, cov, da, got, run_da, answered, seen, of_target,
              of_naming, missed_br>>

ZeroCov == [lines_hit |-> 0, lines_total |-> 0, branches_hit |-> 0, branches_total |-> 0]
NoData == [hit |-> 0, total |-> 0]
One(hit) == IF hit THEN 1 ELSE 0

LcovInit ==
  /\ sf = NoPath /\ records = 0
  /\ cov = [b \in Bases |-> ZeroCov]
  /\ da = {} /\ got = NoData
  /\ run_da = NoData /\ answered = FALSE
  /\ seen = {} /\ of_target = <<>> /\ of_naming = <<>> /\ missed_br = {}

\* SF: begins a record; each script decides whether the file is one of its own.
ReadSF(path) ==
  /\ sf = NoPath /\ records < MaxRecords
  /\ sf' = path
  /\ records' = records + 1
  /\ run_da' = IF path \in Naming /\ ~answered THEN NoData ELSE run_da
  /\ of_target' = IF path.base = Target THEN Append(of_target, path) ELSE of_target
  /\ of_naming' = IF path \in Naming THEN Append(of_naming, path) ELSE of_naming
  /\ UNCHANGED <<cov, da, got, answered, seen, missed_br>>

Mine(base) == sf # NoPath /\ UnderRtl(sf) /\ sf.base = base
ForTarget == sf # NoPath /\ sf.base = Target
ForNaming == sf # NoPath /\ sf \in Naming

\* Slip: only the lines that were executed are counted.
CovDA_hits_only(hit) ==
  [b \in Bases |-> IF Mine(b)
                   THEN [cov[b] EXCEPT !.lines_total = @ + One(hit),
                                       !.lines_hit = @ + One(hit)]
                   ELSE cov[b]]

\* A DA line in coverage_report.py.
CovDA(hit) ==
  [b \in Bases |-> IF Mine(b)
                   THEN [cov[b] EXCEPT !.lines_total = @ + 1, !.lines_hit = @ + One(hit)]
                   ELSE cov[b]]

\* cov_summary.py: the lines of the target's record, until it has an answer.
SummaryDA(n, hit) == IF ForTarget /\ got = NoData THEN da \cup {<<n, hit>>} ELSE da
SummaryEnd ==
  IF ForTarget /\ got = NoData
  THEN [hit |-> Cardinality({x \in da : x[2]}), total |-> Cardinality(da)] ELSE got

\* gen_coverage.py of phase 2: the counts of the first record that names it.
FirstRecord(hit) ==
  IF ForNaming /\ ~answered
  THEN [hit |-> run_da.hit + One(hit), total |-> run_da.total + 1] ELSE run_da

\* A record names each line once.
ReadDA(n, hit) ==
  /\ sf # NoPath
  /\ \A x \in seen : x.record = records => x.line # n
  /\ cov' = CovDA(hit)
  /\ da' = SummaryDA(n, hit)
  /\ run_da' = FirstRecord(hit)
  /\ seen' = seen \cup {[record |-> records, path |-> sf, line |-> n, hit |-> hit]}
  /\ UNCHANGED <<sf, records, got, answered, of_target, of_naming, missed_br>>

\* A BRDA line; a count of '-' is a branch that was not taken.
ReadBRDA(taken) ==
  /\ sf # NoPath
  /\ cov[sf.base].branches_total < MaxBranches
  /\ cov' = [b \in Bases |-> IF Mine(b)
                             THEN [cov[b] EXCEPT !.branches_total = @ + 1,
                                                 !.branches_hit = @ + One(taken)]
                             ELSE cov[b]]
  /\ missed_br' = IF UnderRtl(sf) /\ ~taken THEN missed_br \cup {sf.base} ELSE missed_br
  /\ UNCHANGED <<sf, records, da, got, run_da, answered, seen, of_target, of_naming>>

\* end_of_record: phase 1 answers with the first record of its file that has
\* lines, phase 2 with the first that names it; LH and LF of a record agree with its DA lines.
ReadEnd ==
  /\ sf # NoPath
  /\ sf' = NoPath
  /\ got' = SummaryEnd
  /\ da' = IF ForTarget THEN {} ELSE da
  /\ answered' = (answered \/ ForNaming)
  /\ UNCHANGED <<records, cov, run_da, seen, of_target, of_naming, missed_br>>

LcovNext ==
  \/ \E path \in Paths : ReadSF(path)
  \/ \E n \in LineNos, hit \in BOOLEAN : ReadDA(n, hit)
  \/ \E taken \in BOOLEAN : ReadBRDA(taken)
  \/ ReadEnd

-----------------------------------------------------------------------------
\* generate_report: the totals of a framework and its list of gaps.
Total(field) == MapThenSumSet(LAMBDA b : cov[b][field], Bases)
NotCompiled == {b \in Bases : cov[b].lines_total = 0}
Gap == {b \in Bases \ NotCompiled : \/ cov[b].lines_hit < cov[b].lines_total
                                  \/ cov[b].branches_hit < cov[b].branches_total}

\* fmt_pct rounds to one decimal: 100.0 from 99.95 on.
Prints100(hit, total) == total > 0 /\ 2000 * (total - hit) <= total
LinePrints100 == Prints100(Total("lines_hit"), Total("lines_total"))
BranchPrints100 == Prints100(Total("branches_hit"), Total("branches_total"))

\* "100% line coverage achieved" of phase 1, and the "100%" of phase 2.  Without
\* lines in the .info file phase 1 turns to the annotated source; its pattern asks
\* for a second number that Verilator does not write, so it finds nothing there.
SummaryFull == got.total > 0 /\ got.hit = got.total
GenFull == run_da.total > 0 /\ run_da.hit = run_da.total

MissedLines == {x \in seen : UnderRtl(x.path) /\ ~x.hit}

\* An RTL line that was never executed puts its file on the list of gaps, and so
\* does a branch not taken in a file with lines.  Each keeps the total of its kind
\* below 100.0%, unless there are 2000 to round it off.  Nor do the scripts of the
\* phases call a file complete that has such a line, if the .info file has a
\* single record they take for it.
GapFindsEveryMiss ==
  /\ \A x \in MissedLines : x.path.base \in Gap
  /\ \A b \in missed_br \ NotCompiled : b \in Gap
  /\ LinePrints100 /\ Total("lines_total") < 2000 => MissedLines = {}
  /\ BranchPrints100 /\ Total("branches_total") < 2000 => missed_br = {}
  /\ Len(of_target) = 1 /\ SummaryFull => ~\E x \in MissedLines : x.path = of_target[1]
  /\ Len(of_naming) = 1 /\ GenFull => ~\E x \in MissedLines : x.path = of_naming[1]
=============================================================================
