--------------------------- MODULE MCModelWorkflow ---------------------------
EXTENDS ModelWorkflow

(* Sources 1 and 2 share a topology, 3 does not; 2 fails the contract *)
MCTopology == <<1, 1, 2>>
MCQuality == <<1, 2, 0>>

(* The first run of the pipeline gets the longer sessions *)
MCWrites == <<3, 0>>
MCKills == <<1, 0>>

(* and the longer budget: one attempt fits the first budget, two fit it    *)
(* extended, one fits the second.                                          *)
MCBudget == <<3, 2>>
MCExtended == <<4, 2>>
=============================================================================
