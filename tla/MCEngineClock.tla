----------------------------- MODULE MCEngineClock -----------------------------
(***************************************************************************)
(* Two processes of two threads, a clock of a few seconds and a window and *)
(* a cap that it can exceed.  No property tells a process or a thread from *)
(* another.                                                                *)
(***************************************************************************)
EXTENDS EngineClock, TLC

Symmetry == Permutations(Proc) \cup Permutations(Thread)
===============================================================================
