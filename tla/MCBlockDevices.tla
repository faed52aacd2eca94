-------------------------- MODULE MCBlockDevices ---------------------------
(***************************************************************************)
(* The block devices for TLC: BlkRequest with one task or with two, which  *)
(* share no state with the driver of the hard disk, HardDisk; a behaviour  *)
(* is one of the three, as Cases says.                                     *)
(***************************************************************************)
EXTENDS BlkRequest

CONSTANT MaxQueue

VARIABLES case,
          hdqueue, do_hd, reset, recalibrate, context, ctl, irq, panic, ended, late

hdVars == <<hdqueue, do_hd, reset, recalibrate, context, ctl, irq, panic, ended, late>>

allVars == <<case, vars, hdVars>>

Hd == INSTANCE HardDisk WITH queue <- hdqueue, pc <- context

\* Block 1 is one of the RAM disk.
HdAndRam == [b \in Blocks |-> IF b = 1 THEN "rd" ELSE "hd"]

\* The tasks that run, the blocks that they use, and whether they read ahead
Cases ==
  [OneTask  |-> [tasks |-> {CHOOSE t \in Tasks : TRUE}, blocks |-> Blocks \ {1}, ahead |-> BOOLEAN],
   TwoTasks |-> [tasks |-> Tasks, blocks |-> Blocks \ {NrBlocks}, ahead |-> {FALSE}],
   Driver   |-> [tasks |-> {}, blocks |-> {}, ahead |-> {}]]

OnlyBlk == case # "Driver" /\ UNCHANGED <<case, hdVars>>
OnlyHd == case = "Driver" /\ UNCHANGED <<case, vars>>

MCInit == Init /\ Hd!Init /\ case \in DOMAIN Cases

MCNext ==
  \/ /\ Next /\ OnlyBlk
     /\ {b \in Blocks : dirt'[b]} \subseteq Cases[case].blocks
     /\ \A t \in Tasks : pc'[t] # "out" =>
          /\ t \in Cases[case].tasks
          /\ op'[t].buf \in Cases[case].blocks /\ op'[t].ahead \in Cases[case].ahead
  \/ Hd!Next /\ OnlyHd

\* The fairness of BlkRequest and that of HardDisk: no behaviour is of both,
\* so a conjunct can state one condition of each.
MCSpec ==
  /\ MCInit /\ [][MCNext]_allVars
  /\ WF_allVars(\/ OnlyBlk /\ \E m \in Majors : Interrupt(m)
                \/ OnlyHd /\ Hd!Interrupt)
  /\ \A t \in Tasks : WF_allVars(Work(t) /\ OnlyBlk)
  /\ WF_allVars(Hd!Done /\ OnlyHd)
  /\ WF_allVars(Hd!AskForData /\ OnlyHd)
  /\ \A c \in Hd!Contexts : WF_allVars((Hd!Repeat(c) \/ Hd!Poll(c)) /\ OnlyHd)

\* SameRequest of HardDisk: the driver and the controller mean the same
\* request, through errors, retries and resets (hd.c:283-387).
SameRequest == Hd!SameRequest

\* WholeBlocks of HardDisk: a request is ended well only when all its sectors
\* were moved (hd.c:291-300, 310-318).
WholeBlocks == Hd!WholeBlocks

\* DiskGoesOn of HardDisk: the driver gets every request done or given up,
\* however often the controller fails (hd.c:275-326).
DiskGoesOn == Hd!DiskGoesOn

=============================================================================
