---------------------------- MODULE MCDayInputs ----------------------------
(* DayInputs for a day that is committed three times: the pdf changes first,  *)
(* then the recap.                                                            *)
EXTENDS DayInputs, TLC

CONSTANTS c1, c2, w1

MCCommits ==
  1 :> [recap |-> "r1", plan |-> "t1", pdf |-> "p1"] @@
  2 :> [recap |-> "r1", plan |-> "t2", pdf |-> "p2"] @@
  3 :> [recap |-> "r2", plan |-> "t2", pdf |-> "p2"]

ASSUME Pdfs == PdfNeverReturns
==============================================================================
