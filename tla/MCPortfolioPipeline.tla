-------------------------- MODULE MCPortfolioPipeline --------------------------
(* The two cadences of config.yaml and the group lists of a late statement. *)
EXTENDS PortfolioPipeline

Tactical == <<"scores", "risk", "optimizer", "costs", "rotation", "governor", "bootstrap_final",
              "earnings", "monitor", "monitor_filter", "rotation", "macro_contract", "governor",
              "final", "final_report">>
Strategic == <<"scores", "risk", "optimizer", "costs", "rotation", "macro", "governor",
               "bootstrap_final", "earnings", "monitor", "monitor_filter", "rotation",
               "macro_contract", "bl", "sleeves", "ledger", "exits", "payout", "governor", "final",
               "final_report">>
LateStatement == <<"exits", "payout", "final", "final_report">>
LateLedger == <<"ledger">>

Both == {Tactical, Strategic}
All == {Tactical, Strategic, LateLedger, LateStatement}
================================================================================
