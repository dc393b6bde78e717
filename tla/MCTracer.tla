------------------------------ MODULE MCTracer ------------------------------
(***************************************************************************)
(* Instances of Tracer: instructions that differ in the callbacks that     *)
(* insInstrumentation schedules for them.                                  *)
(***************************************************************************)
EXTENDS Tracer

Plain == [at |-> 0, reads |-> 0, srcs |-> 0, dest |-> "none", write |-> FALSE,
          analyzed |-> TRUE, alloc |-> FALSE, create |-> FALSE, faults |-> FALSE]

Store   == [Plain EXCEPT !.at = 2, !.srcs = 1, !.write = TRUE]
Load    == [Plain EXCEPT !.at = 4, !.reads = 1, !.srcs = 1, !.dest = "regs"]
Compare == [Plain EXCEPT !.at = 5, !.reads = 2, !.srcs = 1, !.dest = "regs"]
AllocCompare == [Compare EXCEPT !.alloc = TRUE]
Ret     == [Plain EXCEPT !.at = 6, !.reads = 1, !.srcs = 1, !.dest = "regs",
                         !.analyzed = FALSE]
CreatorRet == [Ret EXCEPT !.create = TRUE]
CreatorStore == [Store EXCEPT !.srcs = 2, !.create = TRUE]
FaultingStore == [Store EXCEPT !.faults = TRUE]
FaultingLoad == [Load EXCEPT !.faults = TRUE]

(* Attribution: threads run after one another, under the same number or    *)
(* not, and at once.  A load may follow a return or a fault.               *)
TwoThreads == {0, 1}
AttributionInsts == {Store, FaultingLoad, Ret}

(* Both locks and all callbacks; three numbers for a table of two threads.  *)
ThreeNumbers == {0, 1, 2}
ThreadInsts == {AllocCompare, CreatorRet, CreatorStore}

(* A store faults and the program goes on after its handler.               *)
OneThread == {0}
FaultInsts == {FaultingStore, Load}
=============================================================================
