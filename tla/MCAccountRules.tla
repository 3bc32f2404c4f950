---------------------------- MODULE MCAccountRules ----------------------------
(* The account rule machine on the programmes of module Programmes. *)
EXTENDS AccountRules, Programmes
===============================================================================
