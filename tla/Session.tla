------------------------------- MODULE Session -------------------------------
(***************************************************************************)
(* What the command protocol promises a Linux program and the flight       *)
(* firmware: a queue of whole frames each way.  The firmware acts on each  *)
(* frame once, in the order they were sent, and answers it; the program    *)
(* gets every answer and every burst of telemetry, in order.  CommandLink  *)
(* shows how far the code keeps that with bytes that are cut anywhere and  *)
(* an M3 that is restarted at any moment: one way up to a restart while a  *)
(* frame is being written, the other way up to a byte that command_send    *)
(* drops or a restart while the program is inside a frame.                 *)
(***************************************************************************)
EXTENDS Naturals, Sequences

CONSTANTS Byte, HostFrames, CmdConnect, CmdDisconnect, CmdQuiet, CmdError,
          Bursts   \* the telemetry of one tick

VARIABLES
  toM3, toHost,            \* the frames under way, oldest first
  connected, hConnected,   \* whether they are connected, for the firmware and the program
  torn, astray            \* where the promise ends

Init == /\ toM3 = << >> /\ toHost = << >>
        /\ ~connected /\ ~hConnected /\ ~torn /\ ~astray

Send == /\ ~torn /\ \E f \in HostFrames : toM3' = Append(toM3, f)
        /\ UNCHANGED <<toHost, connected, hConnected, torn, astray>>

\* What the firmware does with a command, and its answer.
Handle(cmd) ==
  /\ connected' = (cmd = CmdConnect \/ (connected /\ cmd # CmdDisconnect))
  /\ toHost' = IF astray \/ cmd \in CmdQuiet THEN toHost
               ELSE Append(toHost, <<0, IF cmd \in {CmdConnect, CmdDisconnect} THEN cmd
                                        ELSE CmdError>>)

\* It acts on the oldest frame; behind a torn one, on anything.
Act == /\ IF torn THEN toM3' = toM3 /\ \E cmd \in Byte : Handle(cmd)
          ELSE toM3 # << >> /\ toM3' = Tail(toM3) /\ Handle(Head(toM3)[2])
       /\ UNCHANGED <<hConnected, torn, astray>>

Report == /\ connected /\ ~astray /\ \E burst \in Bursts : toHost' = toHost \o burst
          /\ UNCHANGED <<toM3, connected, hConnected, torn, astray>>

\* The program gets the oldest frame; when bytes are missing, anything.
Receive ==
  /\ IF astray THEN toHost' = toHost /\ hConnected' \in BOOLEAN
     ELSE /\ toHost # << >> /\ toHost' = Tail(toHost)
          /\ LET cmd == Head(toHost)[2] IN
               hConnected' = (cmd = CmdConnect \/ (hConnected /\ cmd # CmdDisconnect))
  /\ UNCHANGED <<toM3, connected, torn, astray>>

\* The M3 starts, for the first time or again: of the frames to it only one that is not
\* yet written survives, of those from it only the oldest, which the program has read.
\* The firmware may have forgotten the connection; the program has not.
Start == /\ \/ toM3' = << >> /\ torn' \in BOOLEAN
            \/ \E f \in HostFrames : /\ torn \/ (toM3 # << >> /\ f = toM3[Len(toM3)])
                                     /\ toM3' = <<f>> /\ ~torn'
         /\ \/ \E k \in 0 .. Len(toHost) : toHost' = SubSeq(toHost, 1, k) /\ astray' = astray
            \/ toHost' = << >> /\ astray'
         /\ connected' \in {FALSE, connected}
         /\ UNCHANGED hConnected

Drop == /\ toHost' = << >> /\ astray'
        /\ UNCHANGED <<toM3, connected, hConnected, torn>>

Next == Send \/ Act \/ Report \/ Receive \/ Start \/ Drop

Spec == Init /\ [][Next]_<<toM3, toHost, connected, hConnected, torn, astray>>
=============================================================================
