--------------------------- MODULE UvmRegression ---------------------------
(***************************************************************************)
(* scripts/run_uvm_regression.py with the compile rule of tb/uvm/Makefile: *)
(* the testbench is compiled once for the default toplevel and once for    *)
(* each extra group, every test leaves a log, and the verdicts become a    *)
(* report and an exit status.  A step is one subprocess.                   *)
(*                                                                         *)
(* A binary is the toplevel and the session it was compiled for and in; a  *)
(* log is whether "** TEST PASSED **" is in it, and who wrote it.          *)
(***************************************************************************)
EXTENDS Integers, Sequences, FiniteSets

CONSTANTS
  ALL_TESTS,             \* tests of the default toplevel, a sequence
  EXTRA_TOPLEVEL_TESTS,  \* sequence of [toplevel, tests]
  DefaultTop,            \* "lliu_top"
  NoBinary, NoLog,
  OldLayout              \* a simv from when all toplevels shared one directory

\* The default group is first.
Groups == <<[toplevel |-> DefaultTop, tests |-> ALL_TESTS]>> \o EXTRA_TOPLEVEL_TESTS
TestsOf(g) == {Groups[g].tests[i] : i \in 1 .. Len(Groups[g].tests)}

\* Each group has a test, and no test is in two groups.
ASSUME GroupsAssumption ==
  /\ DefaultTop \in STRING
  /\ ALL_TESTS \in Seq(STRING) \ {<<>>}
  /\ EXTRA_TOPLEVEL_TESTS \in Seq([toplevel : STRING, tests : Seq(STRING) \ {<<>>}])
  /\ \A g, h \in 1 .. Len(Groups) : g # h => TestsOf(g) \cap TestsOf(h) = {}

Tests == UNION {TestsOf(g) : g \in 1 .. Len(Groups)}
Toplevels == {Groups[g].toplevel : g \in 1 .. Len(Groups)}

VARIABLES
  upc,          \* "idle", "compile", "test", "report", "parse", "done"
  uvm_session,
  no_compile,   \* --no-compile
  parse_only,   \* --no-run
  group, test,  \* position in Groups and in its tests
  simv,         \* the file SIMV: sim_build/verilator/simv
  built,        \* sim_build/verilator/<toplevel>/simv, where make puts it
  log,          \* sim_build/verilator/<test>.log
  results,      \* test -> its result in this session, for those that have one
  exit,         \* exit status of the last complete call
  failed_build  \* a compilation of this session failed

uvmVars == <<upc, uvm_session, no_compile, parse_only, group, test, simv, built, log, results,
             exit, failed_build>>

UvmInit ==
  /\ upc = "idle" /\ uvm_session = 0 /\ no_compile = FALSE /\ parse_only = FALSE
  /\ group = 1 /\ test = 1
  /\ simv \in {NoBinary, OldLayout}
  /\ built = [t \in Toplevels |-> NoBinary]
  /\ log = [t \in Tests |-> NoLog]
  /\ results = <<>> /\ exit = 0 /\ failed_build = FALSE

UvmIdle == upc \in {"idle", "done"}

UvmStart(skip_compile, skip_run) ==
  /\ UvmIdle
  /\ upc' = IF skip_run THEN "parse" ELSE "compile"
  /\ uvm_session' = uvm_session + 1
  /\ no_compile' = skip_compile
  /\ parse_only' = skip_run
  /\ group' = 1 /\ test' = 1
  /\ results' = <<>>
  /\ failed_build' = FALSE
  /\ UNCHANGED <<simv, built, log, exit>>

\* One more entry of the list of results.
Add(t, r) == [u \in DOMAIN results \cup {t} |-> IF u = t THEN r ELSE results[u]]

\* Slip: a group that does not compile is left out of the report.
GroupFailed_silent == results

\* A group that does not compile counts as failed, test by test.
GroupFailed ==
  [t \in DOMAIN results \cup TestsOf(group) |->
     IF t \in TestsOf(group) THEN [passed |-> FALSE, log |-> NoLog] ELSE results[t]]

NextGroup == /\ group' = group + 1
             /\ upc' = IF group = Len(Groups) THEN "report" ELSE "compile"

\* make compile: the directory of the toplevel is emptied, then filled.
Make(ok) ==
  built' = [built EXCEPT ![Groups[group].toplevel] =
              IF ok THEN [toplevel |-> Groups[group].toplevel, session |-> uvm_session]
              ELSE NoBinary]

\* The compilation of the default toplevel ends the script when it fails, that
\* of a group only the group.
CompileFails ==
  /\ upc = "compile" /\ ~no_compile
  /\ Make(FALSE)
  /\ failed_build' = TRUE
  /\ IF group = 1
     THEN upc' = "done" /\ exit' = 2 /\ UNCHANGED <<group, results>>
     ELSE NextGroup /\ results' = GroupFailed /\ UNCHANGED exit
  /\ UNCHANGED <<uvm_session, no_compile, parse_only, test, simv, log>>

\* SIMV must exist then, whoever compiled it.
CompileOrSkip ==
  /\ upc = "compile"
  /\ IF no_compile THEN UNCHANGED built ELSE Make(TRUE)
  /\ CASE simv # NoBinary -> upc' = "test" /\ UNCHANGED <<group, exit>>
       [] simv = NoBinary /\ group = 1 -> upc' = "done" /\ exit' = 2 /\ UNCHANGED group
       [] OTHER -> NextGroup /\ UNCHANGED exit
  /\ UNCHANGED <<uvm_session, no_compile, parse_only, test, simv, log, results, failed_build>>

Output(t, passed) == [passed |-> passed, session |-> uvm_session, by |-> simv]

\* run_test: the binary runs, and the verdict is read off its output.
RunUvmTest ==
  /\ upc = "test"
  /\ LET t == Groups[group].tests[test] IN
     \E passed \in BOOLEAN :
       LET out == Output(t, passed) IN
         /\ log' = [log EXCEPT ![t] = out]
         /\ results' = Add(t, [passed |-> out.passed, log |-> out])
  /\ IF test < Len(Groups[group].tests)
     THEN test' = test + 1 /\ UNCHANGED <<group, upc>>
     ELSE test' = 1 /\ NextGroup
  /\ UNCHANGED <<uvm_session, no_compile, parse_only, simv, built, exit, failed_build>>

\* --no-run: every log there is becomes a result.
ParseLogs ==
  /\ upc = "parse"
  /\ results' = [t \in {t \in Tests : log[t] # NoLog} |->
                   [passed |-> log[t].passed, log |-> log[t]]]
  /\ upc' = "report"
  /\ UNCHANGED <<uvm_session, no_compile, parse_only, group, test, simv, built, log, exit, failed_build>>

UvmFailed == {t \in DOMAIN results : ~results[t].passed}

BuildReport ==
  /\ upc = "report"
  /\ exit' = IF UvmFailed # {} THEN 1 ELSE 0
  /\ upc' = "done"
  /\ UNCHANGED <<uvm_session, no_compile, parse_only, group, test, simv, built, log, results, failed_build>>

UvmInterrupt ==
  /\ ~UvmIdle
  /\ upc' = "idle"
  /\ UNCHANGED <<uvm_session, no_compile, parse_only, group, test, simv, built, log, results, exit, failed_build>>

\* scripts/clean_regression_artifacts.sh, the part about UVM.
CleanUvm ==
  /\ UvmIdle
  /\ upc' = "idle"
  /\ simv' = NoBinary
  /\ built' = [t \in Toplevels |-> NoBinary]
  /\ log' = [t \in Tests |-> NoLog]
  /\ UNCHANGED <<uvm_session, no_compile, parse_only, group, test, results, exit, failed_build>>
-----------------------------------------------------------------------------
Completed == upc = "done" /\ uvm_session > 0 /\ ~parse_only

\* Exit status 0 of a call that runs the tests means that every test of every
\* group was run by it and said that it passed, and that everything compiled:
\* no group is skipped in silence.
UvmPassMeansRan ==
  Completed /\ exit = 0 =>
    /\ ~failed_build
    /\ \A t \in Tests : /\ t \in DOMAIN results
                       /\ results[t].passed
                       /\ results[t].log.session = uvm_session
=============================================================================
