----------------------------- MODULE WupSession -----------------------------
(***************************************************************************)
(* What the debug server promises whoever starts it and whoever connects   *)
(* to it, with its threads, sockets and flags left out.  Sessions do not   *)
(* overlap: a start begins one, a stop makes its server finish with the    *)
(* client it has, and no other begins before that.  A stopped server       *)
(* executes at most the command its client had a right to when it was      *)
(* stopped, and serves nobody who connects after that.                     *)
(***************************************************************************)

VARIABLES
    mode,       \* of the server: "off", "on" or "stopping"
    client      \* "none", or it is "served", "answering" a command or "leaving"

sessionVars == <<mode, client>>

Init == mode = "off" /\ client = "none"

Start ==
    /\ mode = "off" /\ client = "none"
    /\ mode' = "on"
    /\ UNCHANGED client

\* Whoever connects while the server stops is only sent away.
Connect ==
    /\ mode # "off" /\ client = "none"
    /\ client' = IF mode = "on" THEN "served" ELSE "leaving"
    /\ UNCHANGED mode

Execute ==
    /\ client = "served"
    /\ client' = "answering"
    /\ UNCHANGED mode

\* After its answer the client is served again, unless the server stops.
Answer ==
    /\ client = "answering"
    /\ client' = IF mode = "on" THEN "served" ELSE "leaving"
    /\ UNCHANGED mode

\* The client disconnects.
Leave ==
    /\ client = "served"
    /\ client' = "leaving"
    /\ UNCHANGED mode

Gone ==
    /\ client = "leaving"
    /\ client' = "none"
    /\ UNCHANGED mode

\* A client that has not asked for anything may lose its right to do so.
Stop ==
    /\ mode = "on"
    /\ mode' = "stopping"
    /\ \/ UNCHANGED client
       \/ client = "served" /\ client' = "leaving"

Stopped ==
    /\ mode = "stopping" /\ client = "none"
    /\ mode' = "off"
    /\ UNCHANGED client

Next == Start \/ Connect \/ Execute \/ Answer \/ Leave \/ Gone \/ Stop \/ Stopped

Spec == Init /\ [][Next]_sessionVars
=============================================================================
