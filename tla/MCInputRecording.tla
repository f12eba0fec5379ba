--------------------------- MODULE MCInputRecording -------------------------
(***************************************************************************)
(* Two timed and two framed sequences, of which one was recorded from some *)
(* frames before its first event; and one or none of them while starts, a  *)
(* pause and a stop of a recording come in any order.                      *)
(***************************************************************************)
EXTENDS InputRecording

Key(f, time) == [key |-> TRUE, frame |-> f, t |-> time]
Mouse(f, time) == [key |-> FALSE, frame |-> f, t |-> time]

Recordings ==
  [c \in Calls |->
     CASE c = "typed" -> <<Key(0, 0), Key(0, 0), Key(0, 1)>>
       [] c = "timed" -> <<Mouse(0, 0), Key(0, 1)>>
       [] c = "recorded" -> <<Key(2, 20), Mouse(2, 21), Key(5, 50), Key(5, 51)>>
       [] c = "short" -> <<Mouse(0, 1), Key(1, 9)>>]

Handlers ==
  [r \in Requests |-> CASE r \in {"start1", "start2"} -> "start"
                        [] r = "stop1" -> "stop"
                        [] OTHER -> "pause"]

SomeSessions ==
  {[calls |-> Calls, requests |-> {}],
   [calls |-> {"short"}, requests |-> {"start1", "pause1", "stop1"}],
   [calls |-> {}, requests |-> {"start1", "start2", "pause1", "stop1"}]}
=============================================================================
