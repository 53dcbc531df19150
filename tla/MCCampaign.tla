----------------------------- MODULE MCCampaign ------------------------------
(* The campaign the harness runs: after the reference its five cases.        *)
EXTENDS Campaign
MCCases == <<"startup", "interprobe", "delayed", "crash", "recovery">>
=============================================================================
