---------------------------- MODULE MCFunctionCalls ----------------------------
(***************************************************************************)
(* Two calls of one function, in two generations of the session.           *)
(***************************************************************************)
EXTENDS FunctionCalls, TLC

CallSymmetry == Permutations(Calls)
================================================================================
