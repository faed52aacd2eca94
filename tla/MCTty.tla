------------------------------- MODULE MCTty -------------------------------
(* Tty for TLC: a reader that switches between the modes, or that changes  *)
(* the end of file to a character that may be queued, on a terminal that   *)
(* does not echo; and a writer to one that may echo.                       *)
EXTENDS Tty

\* INIT_C_CC
Init_C_CC == [VINTR |-> "intr", VERASE |-> "erase", VKILL |-> "kill", VEOF |-> "eof",
              VSTART |-> "start", VSTOP |-> "stop"]

Mode(flags, min, time) == [flags |-> flags, min |-> min, time |-> time, cc |-> Init_C_CC]

Line == Mode({"ICANON", "ISIG", "ICRNL"}, 1, FALSE)

ReaderOrWriter ==
  {[users |-> {"reader"}, chars |-> {"plain", "nl", "eof", "erase", "intr"}, masks |-> {{}},
    modes |-> {Line, Mode({"ISIG"}, 0, TRUE), Mode({"ISIG"}, 2, TRUE)}],
   [users |-> {"reader"}, chars |-> {"plain", "nl", "eof", "erase", "kill"}, masks |-> {{}},
    modes |-> {Line, [Line EXCEPT !.cc.VEOF = "plain"]}],
   [users |-> {"reader"}, chars |-> {"plain", "intr"}, masks |-> {{}, {"ALRM"}},
    modes |-> {Mode({"ISIG"}, 0, TRUE)}],
   [users |-> {"writer"}, chars |-> {"plain", "nl", "intr"}, masks |-> {{}, {"INT"}},
    modes |-> {Mode({"ICANON", "ECHO", "ISIG", "ICRNL", "OPOST", "ONLCR"}, 1, FALSE),
               Mode({"ISIG", "OPOST", "ONLCR"}, 1, FALSE)}]}

=============================================================================
