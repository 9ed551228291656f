--------------------------- MODULE MCUmcgSelfTest ---------------------------
(* What main runs: the suite in the order of run_full_tests, with test 2 of   *)
(* umcg_test_basic apart, or the demo (option -d).                            *)
EXTENDS UmcgSelfTest

Suite == <<"perf", "blocking", "handover", "preempt", "exit", "basic",
           "server2server", "errors">>
SuiteOrDemo == {Suite, <<"demo">>}
TimeoutAlone == {<<"timeout">>}
=============================================================================
