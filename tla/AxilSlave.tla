----------------------------- MODULE AxilSlave -----------------------------
(***************************************************************************)
(* rtl/axi4_lite_slave.sv, with the four registers the tests of lliu_top   *)
(* use: WGT_ADDR, WGT_DATA, STATUS and RESULT.  Clock is one edge; an      *)
(* address or a datum that is not valid is NoAddr or NoData.               *)
(***************************************************************************)
EXTENDS Integers

CONSTANTS NoAddr, NoData

VARIABLES
  aw, w,      \* wr_addr_latched with aw_captured, wr_data_latched with w_captured
  bvalid,
  wgt_addr,
  wgt_wr,     \* the datum while wgt_wr_en
  ar,         \* rd_addr_latched with ar_captured
  rvalid, rdata

SlaveReset ==
  /\ aw = NoAddr /\ w = NoData /\ bvalid = FALSE
  /\ wgt_addr = 0 /\ wgt_wr = NoData
  /\ ar = NoAddr /\ rvalid = FALSE /\ rdata = 0

awready == aw = NoAddr
wready == w = NoData
arready == ar = NoAddr /\ ~rvalid

WriteChannel(awaddr, wdata, bready) ==
  LET a == IF awready THEN awaddr ELSE aw
      d == IF wready THEN wdata ELSE w
      both == a # NoAddr /\ d # NoData
  IN  /\ aw' = IF both THEN NoAddr ELSE a
      /\ w' = IF both THEN NoData ELSE d
      /\ bvalid' = (both \/ (bvalid /\ ~bready))
      /\ wgt_addr' = IF both /\ a = "WGT_ADDR" THEN d ELSE wgt_addr
      /\ wgt_wr' = IF both /\ a = "WGT_DATA" THEN d ELSE NoData

\* The registers the benches read; the others, and the 0xDEADBEEF of an address
\* that has none, are left out.
ReadChannel(araddr, rready, status, result) ==
  /\ ar' = IF arready THEN araddr ELSE NoAddr
  /\ rvalid' = (ar # NoAddr \/ (rvalid /\ ~rready))
  /\ rdata' = IF ar = "STATUS" THEN status ELSE IF ar = "RESULT" THEN result ELSE rdata

Clock(awaddr, wdata, bready, araddr, rready, status, result) ==
  /\ WriteChannel(awaddr, wdata, bready)
  /\ ReadChannel(araddr, rready, status, result)
=============================================================================
