------------------------------ MODULE Scripts ------------------------------
(***************************************************************************)
(* The programs that decide whether the design is verified: the two        *)
(* regression scripts and the script that cleans up before them, on one    *)
(* working tree, and the readers of coverage data.  The readers have no    *)
(* file in common with the regressions or with each other, so a behaviour  *)
(* follows one `tool` of those.                                            *)
(***************************************************************************)
EXTENDS CocotbRegression, UvmRegression, AnnotatedCoverage, LcovReports,
        FunctionalCoverage

CONSTANTS
  Tools,       \* the tools followed: a subset of the four of Init
  MaxSessions  \* bound on the calls of the regression scripts

VARIABLE tool

scriptVars == <<tool, cocotbVars, uvmVars, annotVars, lcovVars, coverVars>>

ScriptInit ==
  /\ tool \in Tools
  /\ CocotbInit /\ UvmInit /\ AnnotInit /\ LcovInit /\ CoverInit

\* scripts/clean_regression_artifacts.sh, between two calls.
Clean == /\ session + uvm_session < MaxSessions
         /\ CleanCocotb /\ CleanUvm

\* The scripts are called one after the other.
Regress ==
  \/ /\ UvmIdle /\ UNCHANGED uvmVars
     /\ \/ session + uvm_session < MaxSessions /\ \E skip \in BOOLEAN : CocotbStart(skip)
        \/ CocotbRunTest
        \/ CocotbMerge
        \/ CocotbInterrupt
  \/ /\ CocotbIdle /\ UNCHANGED cocotbVars
     /\ \/ /\ session + uvm_session < MaxSessions
           /\ \E skip_compile, skip_run \in BOOLEAN : UvmStart(skip_compile, skip_run)
        \/ CompileFails
        \/ CompileOrSkip
        \/ RunUvmTest
        \/ ParseLogs
        \/ BuildReport
        \/ UvmInterrupt
  \/ CocotbIdle /\ UvmIdle /\ Clean

\* The groups of coverpoints are sampled one after the other: each by tests of
\* its own.
Full(cps) == \A cp \in cps : PointFull(cp)
SampleInTurn ==
  \/ Sample
  \/ CrossFull(<<"price_range", "side">>) /\ SampleMoldUDP64
  \/ CrossFull(<<"seq_state", "msg_count">>) /\ SampleSymbolFilter
  \/ Full({"cam_result", "cam_index", "back_to_back"}) /\ SampleEthDrop

ScriptNext ==
  /\ UNCHANGED tool
  /\ \/ tool = "regress" /\ Regress /\ UNCHANGED <<annotVars, lcovVars, coverVars>>
     \/ tool = "annotated" /\ AnnotNext /\ UNCHANGED <<cocotbVars, uvmVars, lcovVars, coverVars>>
     \/ tool = "lcov" /\ LcovNext /\ UNCHANGED <<cocotbVars, uvmVars, annotVars, coverVars>>
     \/ tool = "cover" /\ SampleInTurn /\ UNCHANGED <<cocotbVars, uvmVars, annotVars, lcovVars>>

ScriptSpec == ScriptInit /\ [][ScriptNext]_scriptVars
=============================================================================
