------------------------------ MODULE PipeAbs ------------------------------
(***************************************************************************)
(* What a pipe promises to the processes that have it open: the bytes      *)
(* written are read once each, at most Capacity of them wait in the pipe,  *)
(* end of file is reported only when everything was read and no write end  *)
(* is open, and SIGPIPE only when the pipe is full and no read end is      *)
(* open.  Bytes are counted; Pipe.tla is about their values too.           *)
(***************************************************************************)
EXTENDS Naturals

CONSTANT Capacity   \* bytes that a pipe holds

VARIABLES ends,     \* the ends that some process has open
          sent,     \* bytes written to the pipe
          received, \* bytes read from it
          report    \* "eof", "sigpipe", or "none" since the last of them

vars == <<ends, sent, received, report>>

Init == ends = {} /\ sent = 0 /\ received = 0 /\ report = "none"

Create ==
  /\ ends = {} /\ ends' = {"read", "write"}
  /\ sent' = 0 /\ received' = 0 /\ report' = "none"

Close ==
  /\ ends' \subseteq ends /\ ends' # ends
  /\ report' = "none"
  /\ UNCHANGED <<sent, received>>

Write ==
  /\ "write" \in ends
  /\ sent' \in sent + 1..received + Capacity
  /\ report' = "none"
  /\ UNCHANGED <<ends, received>>

Read ==
  /\ "read" \in ends
  /\ received' \in received + 1..sent
  /\ report' = "none"
  /\ UNCHANGED <<ends, sent>>

EndOfFile ==
  /\ "read" \in ends /\ "write" \notin ends
  /\ received = sent
  /\ report' = "eof"
  /\ UNCHANGED <<ends, sent, received>>

BrokenPipe ==
  /\ "write" \in ends /\ "read" \notin ends
  /\ sent = received + Capacity
  /\ report' = "sigpipe"
  /\ UNCHANGED <<ends, sent, received>>

Next == Create \/ Close \/ Write \/ Read \/ EndOfFile \/ BrokenPipe

Spec == Init /\ [][Next]_vars

=============================================================================
