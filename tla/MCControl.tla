------------------------------ MODULE MCControl ------------------------------
(* Values of the constants of Control.                                     *)
EXTENDS Control

(* Everything but the two operations of SchedulerService that take or      *)
(* release SLEWING without a goto.                                         *)
LeaseOps == (MotionOps \cup CoreOps) \ {"capture", "solve"}
=============================================================================
