----------------------------- MODULE MCActions -----------------------------
(***************************************************************************)
(* Instances of Actions for TLC: a fatal action between two that may fail, *)
(* and two packages of the product.                                        *)
(***************************************************************************)
EXTENDS Actions

MCPolicy == <<"continue", "fail", "continue">>
MCSmallPolicy == <<"fail", "continue">>
MCOnePolicy == <<"fail">>
=============================================================================
