------------------------- MODULE AnnotatedCoverage -------------------------
(***************************************************************************)
(* The scripts that turn Verilator's annotated sources into a coverage     *)
(* figure: tb/uvm_v2/calc_rtl_cov.py and those of the phases kept under    *)
(* .github/plan/dvcon/results.  A step is a stretch of like lines of the   *)
(* annotated file, read by all of them.                                    *)
(*                                                                         *)
(* A line that carries a coverage point has a mark and a count: '%' when   *)
(* the count is below --annotate-min, '~' when only some of its bits reach *)
(* it, a blank otherwise.  The scripts differ in what they make of them.   *)
(***************************************************************************)
EXTENDS Integers

CONSTANTS
  AnnotateMins,  \* values of --annotate-min: 1 in the Makefiles, 10 by default
  MaxCount,      \* bound on a count
  Stretches,     \* how many like lines a step reads
  MaxStretches   \* bound on the stretches of the file

ASSUME AnnotateAssumption ==
  /\ AnnotateMins \subseteq Nat \ {0}
  /\ Stretches \subseteq Nat \ {0}
  /\ MaxCount \in Nat /\ MaxStretches \in Nat

VARIABLES
  annotate_min,
  stretches,      \* stretches read
  tally,          \* reader -> [hit, total]
  missed,         \* ghost: points with a count of zero, by kind
  missed_always   \* ghost: those of them from an always_ff to the next lone end

annotVars == <<annotate_min, stretches, tally, missed, missed_always>>

\* phase2_annot is what phase 2 falls back on.
Readers == {"calc_rtl_cov", "phase1", "phase2", "phase2_annot", "phase3",
            "phase3_uvm", "phase4"}
Kinds == {"line", "toggle"}
Points == [mark : {"%", "~", " "}, count : 0 .. MaxCount, kind : Kinds, always : BOOLEAN]

\* How Verilator marks a point.
WellMarked(p) == /\ p.mark = "%" <=> p.count < annotate_min
                 /\ p.mark = "~" => p.kind = "toggle"

Nothing == [hit |-> 0, total |-> 0]
Hit     == [hit |-> 1, total |-> 1]
Miss    == [hit |-> 0, total |-> 1]
ByCount(p) == IF p.count > 0 THEN Hit ELSE Miss

\* r'\s*[~]?(\d{6})\s+': a line that begins with '%' does not match.
CalcRtlCov(p) == IF p.mark = "%" THEN Nothing ELSE ByCount(p)

\* phase1/cocotb: '%' is a miss whatever its count.
Phase1(p) == IF p.mark = "%" THEN Miss ELSE ByCount(p)

\* phase2/cocotb reads the counts in coverage.dat, of lines and branches only.
Phase2(p) == IF p.kind = "line" THEN ByCount(p) ELSE Nothing

\* Its fall-back reads the annotated lines inside always blocks; int() of a
\* prefix with a '~' fails.
Phase2Annot(p) == IF p.always /\ p.mark # "~" THEN ByCount(p) ELSE Nothing

\* phase3/cocotb: the count decides, whatever the mark.
Phase3(p) == ByCount(p)

\* Slip: '%' is taken for part of the source.
Phase3Uvm_percent(p) == IF p.mark = " " THEN ByCount(p) ELSE Nothing

\* phase3/uvm: '~' is neither '%' nor a digit, and a zero without '%' nothing.
Phase3Uvm(p) == CASE p.mark = "%" -> Miss
                  [] p.mark = " " /\ p.count > 0 -> Hit
                  [] OTHER -> Nothing

\* phase4/cocotb: what has no '%' is a hit; '~' does not match.
Phase4(p) == CASE p.mark = "%" -> Miss
               [] p.mark = " " -> Hit
               [] OTHER -> Nothing

Read(r, p) == CASE r = "calc_rtl_cov" -> CalcRtlCov(p)
                [] r = "phase1" -> Phase1(p)
                [] r = "phase2" -> Phase2(p)
                [] r = "phase2_annot" -> Phase2Annot(p)
                [] r = "phase3" -> Phase3(p)
                [] r = "phase3_uvm" -> Phase3Uvm(p)
                [] r = "phase4" -> Phase4(p)

AnnotInit ==
  /\ annotate_min \in AnnotateMins
  /\ stretches = 0
  /\ tally = [r \in Readers |-> Nothing]
  /\ missed = [k \in Kinds |-> 0]
  /\ missed_always = 0

\* Lines that carry no point change nothing; they are left out.
ReadStretch(p, n) ==
  /\ stretches < MaxStretches
  /\ WellMarked(p)
  /\ stretches' = stretches + 1
  /\ tally' = [r \in Readers |-> [hit   |-> tally[r].hit + n * Read(r, p).hit,
                                  total |-> tally[r].total + n * Read(r, p).total]]
  /\ missed' = [missed EXCEPT ![p.kind] = IF p.count = 0 THEN @ + n ELSE @]
  /\ missed_always' = IF p.count = 0 /\ p.always THEN missed_always + n ELSE missed_always
  /\ UNCHANGED annotate_min

AnnotNext == \E p \in Points, n \in Stretches : ReadStretch(p, n)

-----------------------------------------------------------------------------
\* What each script makes of its two numbers.  A percentage printed with one
\* decimal is 100.0 from 99.95 on, one printed without is 100 from 99.5 on; one
\* cut off to an integer is 100 at 100 only.
RoundsTo100(t) == t.total > 0 /\ 2000 * (t.total - t.hit) <= t.total
RoundsTo100Whole(t) == t.total > 0 /\ 200 * (t.total - t.hit) <= t.total
CutsTo100(t) == t.total > 0 /\ 100 * t.hit >= 100 * t.total

\* Phase 2 falls back when coverage.dat has no line or branch point.
Phase2Tally == IF tally["phase2"].total = 0 THEN tally["phase2_annot"] ELSE tally["phase2"]

CalcFull      == RoundsTo100(tally["calc_rtl_cov"])
Phase1Full    == LET t == tally["phase1"] IN t.total - t.hit = 0  \* "(none)" uncovered
Phase2Passes  == CutsTo100(Phase2Tally)                 \* its exit status
Phase2Reports == RoundsTo100Whole(Phase2Tally)          \* reports/coverage.txt
Phase3Full    == LET t == tally["phase3"] IN t.total > 0 /\ t.hit >= t.total  \* a line "100%"
Phase3Prints  == RoundsTo100(tally["phase3"])           \* the table
Phase3UvmFull == CutsTo100(tally["phase3_uvm"])
Phase4Full    == RoundsTo100(tally["phase4"])

-----------------------------------------------------------------------------
Unhit == missed["line"] + missed["toggle"]

\* The misses phase 2 is there to see.
Phase2Unhit == IF tally["phase2"].total = 0 THEN missed_always ELSE missed["line"]

\* What a script's 100% says of the points that were never hit.
\*  - There is none of the kinds it counts, if it is the exit status of phase 2,
\*    the list of phase 1, the line "100%" of phase 3 or the figure of phase 3's
\*    UVM bench.
\*  - There may be one in 200 if it is the coverage.txt of phase 2, which
\*    run_experiment.sh takes for success, and one in 2000 if it is printed with
\*    a decimal, as in phase 4.
\*  - They are all among the lines it drops if it is calc_rtl_cov's: those that
\*    begin with '%'.
FullMeansFull ==
  /\ Phase2Passes => Phase2Unhit = 0
  /\ Phase2Reports => 200 * Phase2Unhit <= Phase2Tally.total
  /\ Phase1Full \/ Phase3Full \/ Phase3UvmFull => Unhit = 0
  /\ Phase3Prints => 2000 * Unhit <= tally["phase3"].total
  /\ Phase4Full => 2000 * Unhit <= tally["phase4"].total
  /\ CalcFull => Unhit <= tally["phase3"].total - tally["calc_rtl_cov"].total
=============================================================================
