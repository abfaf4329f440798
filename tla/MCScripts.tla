----------------------------- MODULE MCScripts -----------------------------
(***************************************************************************)
(* Three cocotb modules, two of one toplevel; a default and two extra      *)
(* groups of UVM tests; an RTL file, its copy in rtl/buggy and a testbench *)
(* file of the same name, a testbench file named after it, and another RTL *)
(* file.                                                                   *)
(***************************************************************************)
EXTENDS Scripts

MCModules == <<[toplevel |-> "fp32_acc", module |-> "test_fp32_acc"],
               [toplevel |-> "fp32_acc", module |-> "test_fp32_acc_edge"],
               [toplevel |-> "lliu_top", module |-> "test_smoke"]>>
MCCases == {<<{}>>, <<{"skipped"}, {"failure"}>>, <<{"error", "skipped"}>>}
MCTests == <<"lliu_base_test", "lliu_smoke_test">>
MCGroups == <<[toplevel |-> "order_book", tests |-> <<"lliu_order_book_test">>],
              [toplevel |-> "kc705_top", tests |-> <<"lliu_kc705_test">>]>>
MCPaths == {[dir |-> "rtl", base |-> "lliu_top_v2.sv"],
            [dir |-> "rtl/buggy", base |-> "lliu_top_v2.sv"],
            [dir |-> "tb", base |-> "lliu_top_v2.sv"],
            [dir |-> "tb", base |-> "lliu_top_v2_bind.sv"],
            [dir |-> "rtl", base |-> "fp32_acc.sv"]}
MCNaming == {path \in MCPaths : path.base # "fp32_acc.sv"}
MCMsgTypes == {65}
MCPrices == {0, 99, 100, 500000}
MCMsgCounts == {1, 15, 16}
MCCamIndices == {0, 16, 63}
MCDropCounts == {0, 9, 10}
=============================================================================
