--------------------------- MODULE CommandMarkers ---------------------------
(***************************************************************************)
(* What the hooks of an interactive session promise the recorder: Arm,     *)
(* Start and End of one command after the other, with ids that grow.  The  *)
(* promise is void when the session is disturbed - Ctrl-C inside a hook,   *)
(* no history, a line that is too long, a channel the user redirected - :  *)
(* then a marker may fail, which ends the recording, but ids still grow.   *)
(* BashSession implements this specification.                              *)
(***************************************************************************)
EXTENDS Integers

CONSTANT MaxCommand

VARIABLES
    stage,      \* idle, armed, running, or over: the shell is gone
    id,         \* of the last Arm
    disturbed,
    broken      \* the recorder threw

mvars == <<stage, id, disturbed, broken>>

MInit == stage = "idle" /\ id = 0 /\ disturbed = FALSE /\ broken = FALSE

Arm ==
    /\ stage = "idle"
    /\ \E n \in 1 .. MaxCommand : /\ n > id
                                  /\ n = id + 1 \/ disturbed
                                  /\ id' = n
    /\ stage' = "armed"
    /\ UNCHANGED <<disturbed, broken>>

Start ==
    /\ stage = "armed"
    /\ stage' = "running"
    /\ UNCHANGED <<id, disturbed, broken>>

End ==
    /\ stage = "running"
    /\ stage' = "idle"
    /\ UNCHANGED <<id, disturbed, broken>>

\* The shell exits or is killed; in a hook this leaves half a marker.
Over ==
    /\ stage # "over"
    /\ stage' = "over"
    /\ \/ UNCHANGED <<disturbed, broken>>
       \/ disturbed' = TRUE /\ broken' \in BOOLEAN
    /\ UNCHANGED id

Disturb ==
    /\ disturbed' = TRUE
    /\ UNCHANGED <<stage, id, broken>>

Break ==
    /\ disturbed
    /\ broken' = TRUE
    /\ stage' = "over"
    /\ UNCHANGED <<id, disturbed>>

MNext == ~broken /\ (Arm \/ Start \/ End \/ Over \/ Disturb \/ Break)

MSpec == MInit /\ [][MNext]_mvars
=============================================================================
