---------------------------- MODULE MCTestRunner ----------------------------
(* Small instances of TestRunner. *)
EXTENDS TestRunner

(* What the status files say: nothing, a flaky test, one to be skipped. *)
MCRules == {{}, {"timeout", "fail"}, {"skip"}}

(* Success, failure, a segmentation fault. *)
MCExitCodes == {0, 1, -11}
=============================================================================
