-------------------------- MODULE CocotbRegression --------------------------
(***************************************************************************)
(* scripts/run_cocotb_regression.py: one `make` per test module, the XML   *)
(* it leaves copied away, the copies merged into one report and an exit    *)
(* status.  A step is one subprocess or the merge; between two steps the   *)
(* script may be interrupted, and what is on disk stays.                   *)
(*                                                                         *)
(* A results file is who wrote it (session and module) and the set of its  *)
(* test cases, each the set of its child elements; a simulation that is    *)
(* killed while it writes leaves one that does not parse.                  *)
(***************************************************************************)
EXTENDS Integers, Sequences, FiniteSets

CONSTANTS
  TEST_MODULES,   \* sequence of [toplevel, module], the modules distinct
  CaseLists,      \* what a simulation may report: sequences of sets of children
  NoFile, Broken  \* no file; a file that is not well-formed XML

\* The list has a module, none twice, and no case list is one of the two markers.
ASSUME ModulesAssumption ==
  /\ TEST_MODULES \in Seq([toplevel : STRING, module : STRING]) \ {<<>>}
  /\ \A i, j \in 1 .. Len(TEST_MODULES) :
       TEST_MODULES[i].module = TEST_MODULES[j].module => i = j
  /\ CaseLists \subseteq Seq(SUBSET {"failure", "error", "skipped"})

Modules == {TEST_MODULES[i].module : i \in 1 .. Len(TEST_MODULES)}

VARIABLES
  cpc,          \* "idle", "run", "merge", "done"
  session,      \* which call of the script this is
  no_run,       \* --no-run
  next,         \* position in TEST_MODULES
  results_xml,  \* tb/cocotb/results.xml, written by the simulator
  saved,        \* regression_results/results_<module>.xml
  report,       \* the summary of reports/cocotb_results.xml
  status,       \* exit status of the last complete call
  fresh,        \* the file a module's simulation wrote in this session
  tidy,         \* the tree was cleaned just before this session
  kept          \* a make of this session left an older results.xml in place

cocotbVars == <<cpc, session, no_run, next, results_xml, saved, report, status,
                fresh, tidy, kept>>

CocotbInit ==
  /\ cpc = "idle" /\ session = 0 /\ no_run = FALSE /\ next = 1
  /\ results_xml = NoFile
  /\ saved = [m \in Modules |-> NoFile]
  /\ report = NoFile /\ status = 0
  /\ fresh = [m \in Modules |-> NoFile]
  /\ tidy = FALSE /\ kept = FALSE

Xml(m, cases) == [session |-> session, of |-> m, cases |-> cases]
Parsable(f) == f \notin {NoFile, Broken}

\* What make leaves in place of results.xml: what the simulation wrote; part of
\* it; nothing, when the simulation dies; the file that was there, when make
\* stops before the simulation.
MakeLeaves(m, f) == {Xml(m, cases) : cases \in CaseLists} \cup {Broken, NoFile, f}

\* A change of toplevel cleans the build, and with it, depending on the
\* simulator's makefiles, results.xml.
AfterClean(f) ==
  IF next = 1 \/ TEST_MODULES[next].toplevel # TEST_MODULES[next - 1].toplevel
  THEN {f, NoFile} ELSE {f}

CocotbIdle == cpc \in {"idle", "done"}

CocotbStart(skip) ==
  /\ CocotbIdle
  /\ cpc' = IF skip THEN "merge" ELSE "run"
  /\ no_run' = skip
  /\ session' = session + 1
  /\ next' = 1
  /\ fresh' = [m \in Modules |-> NoFile]
  /\ kept' = FALSE
  /\ tidy' = (tidy /\ cpc = "idle")
  /\ UNCHANGED <<results_xml, saved, report, status>>

\* The code looks at results.xml, not at make's exit code.
Copied(m, f) == IF f = NoFile THEN saved ELSE [saved EXCEPT ![m] = f]

CocotbRunTest ==
  /\ cpc = "run"
  /\ LET m == TEST_MODULES[next].module IN
     \E old \in AfterClean(results_xml) : \E f \in MakeLeaves(m, old) :
       /\ results_xml' = f
       /\ saved' = Copied(m, f)
       /\ fresh' = [fresh EXCEPT ![m] = IF Parsable(f) /\ f.of = m /\ f.session = session
                                        THEN f ELSE NoFile]
       /\ kept' = (kept \/ (f # NoFile /\ f = old))
  /\ next' = next + 1
  /\ cpc' = IF next = Len(TEST_MODULES) THEN "merge" ELSE "run"
  /\ UNCHANGED <<session, no_run, report, status, tidy>>

-----------------------------------------------------------------------------
\* The test cases of the files that exist and parse, named by file and place.
Merged == {m \in Modules : Parsable(saved[m])}

Cases == UNION {{<<m, k>> : k \in 1 .. Len(saved[m].cases)} : m \in Merged}
Children(c) == saved[c[1]].cases[c[2]]

\* An error counts as a failure, and either of them before a skip.
Failed(children) == "failure" \in children \/ "error" \in children

\* Slip: only <failure> counts.
Verdict_failure_only(children) ==
  IF "failure" \in children THEN "failed"
  ELSE IF "skipped" \in children THEN "skipped" ELSE "passed"

Verdict(children) ==
  IF Failed(children) THEN "failed"
  ELSE IF "skipped" \in children THEN "skipped" ELSE "passed"

Count(v) == Cardinality({c \in Cases : Verdict(Children(c)) = v})

Summary == [tests |-> Cardinality(Cases), passed |-> Count("passed"),
            failed |-> Count("failed"), skipped |-> Count("skipped")]

CocotbMerge ==
  /\ cpc = "merge"
  /\ report' = Summary
  /\ status' = IF Count("failed") > 0 THEN 1 ELSE 0
  /\ cpc' = "done"
  /\ UNCHANGED <<session, no_run, next, results_xml, saved, fresh, tidy, kept>>

\* Ctrl-C, or the host going down, between two steps.
CocotbInterrupt ==
  /\ cpc \in {"run", "merge"}
  /\ cpc' = "idle"
  /\ tidy' = FALSE
  /\ UNCHANGED <<session, no_run, next, results_xml, saved, report, status, fresh, kept>>

\* Slip: the copies of the last regression stay.
CleanCocotb_partly ==
  /\ CocotbIdle
  /\ cpc' = "idle"
  /\ results_xml' = NoFile
  /\ report' = NoFile
  /\ tidy' = TRUE
  /\ UNCHANGED <<session, no_run, next, saved, status, fresh, kept>>

\* scripts/clean_regression_artifacts.sh, the part about cocotb.
CleanCocotb ==
  /\ CocotbIdle
  /\ cpc' = "idle"
  /\ results_xml' = NoFile
  /\ saved' = [m \in Modules |-> NoFile]
  /\ report' = NoFile
  /\ tidy' = TRUE
  /\ UNCHANGED <<session, no_run, next, status, fresh, kept>>

-----------------------------------------------------------------------------
\* A failing test case that a simulation of this session wrote makes the exit
\* status 1, whatever the other modules left behind: no skipped file, copy or
\* interrupted call hides it.
FailureFailsTheRun ==
  (/\ cpc = "done" /\ ~no_run
   /\ \E m \in Modules : /\ Parsable(fresh[m])
                         /\ \E k \in 1 .. Len(fresh[m].cases) : Failed(fresh[m].cases[k]))
    => status = 1

FreshCases == UNION {{<<m, k>> : k \in 1 .. Len(fresh[m].cases)} :
                        m \in {n \in Modules : Parsable(fresh[n])}}

\* After the mandatory cleaning, and if no make leaves an older results.xml in
\* place, the report counts exactly the test cases of this session, each once.
CleanRunCountsItself ==
  cpc = "done" /\ ~no_run /\ tidy /\ ~kept =>
    /\ report.tests = Cardinality(FreshCases)
    /\ report.failed = Cardinality({c \in FreshCases : Failed(fresh[c[1]].cases[c[2]])})
    /\ report.tests = report.passed + report.failed + report.skipped
=============================================================================
