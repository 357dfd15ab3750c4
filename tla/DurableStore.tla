---------------------------- MODULE DurableStore ----------------------------
(***************************************************************************)
(* What a persistent resource store promises: a map from resource names to *)
(* contents that is changed by one write at a time, each of which either   *)
(* takes effect as a whole or not at all, also when the server is          *)
(* restarted in the middle of it.  Nothing else, and in particular no      *)
(* restart, changes the map.                                               *)
(***************************************************************************)
CONSTANTS Key, Content, None

VARIABLES cur,    \* the map; None: there is no such resource
          pend    \* the write in progress, or NoWrite

NoWrite == [key |-> None]

Init ==
    /\ cur = [k \in Key |-> None]
    /\ pend = NoWrite

Start(k, c) ==
    /\ pend = NoWrite
    /\ pend' = [key |-> k, content |-> c]
    /\ UNCHANGED cur

Commit ==
    /\ pend # NoWrite
    /\ cur' = [cur EXCEPT ![pend.key] = pend.content]
    /\ pend' = NoWrite

Abort ==
    /\ pend # NoWrite
    /\ pend' = NoWrite
    /\ UNCHANGED cur

Next == (\E k \in Key, c \in Content : Start(k, c)) \/ Commit \/ Abort

Spec == Init /\ [][Next]_<<cur, pend>>
=============================================================================
