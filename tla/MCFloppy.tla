------------------------------ MODULE MCFloppy ------------------------------
(* Floppy for TLC: the controller fails, or floppy_change() is called once *)
(* for any drive, or twice, which may select another drive and then the    *)
(* one of the request again.                                               *)
EXTENDS Floppy

FaultOrChange ==
  {[faults |-> 1, changes |-> 0,
    blocks |-> {<<1, 0, TRUE>>, <<1, 1, TRUE>>, <<2, 0, TRUE>>, <<2, 0, FALSE>>}],
   [faults |-> 0, changes |-> 1, blocks |-> {<<1, 1, TRUE>>, <<2, 0, TRUE>>}],
   [faults |-> 0, changes |-> 2, blocks |-> {<<1, 1, TRUE>>}]}

TwoDrives == {[faults |-> 0, changes |-> 0, blocks |-> {<<1, 0, TRUE>>, <<2, 0, TRUE>>}]}

\* Up to the first request that is begun twice
Once == ~twice

=============================================================================
