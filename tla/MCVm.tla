-------------------------------- MODULE MCVm --------------------------------
(* Vm with two processes, two frames and two swap slots, so that every page  *)
(* brought in soon evicts another and the swap can fill up; the casts take   *)
(* the kinds of pages in turn.                                               *)
EXTENDS Vm

MCCasts == { << {"data"}, {"code", "lower"} >>,
             << {"stack", "map"}, {"map"} >>,
             << {"stack"}, {"stack", "lower"} >> }
=============================================================================
