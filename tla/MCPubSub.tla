------------------------------ MODULE MCPubSub ------------------------------
(* Model-checking instance of PubSub. *)
EXTENDS PubSub

CONSTANTS w1, p1, p2

\* One selector that matches everything, as the stores use, and one on a name.
MCSelector ==
    {[Type |-> "", Name |-> "", Namespace |-> ""],
     [Type |-> "", Name |-> "a", Namespace |-> ""]}

MCAnySelector == {[Type |-> "", Name |-> "", Namespace |-> ""]}

\* What isSubscribed and Publish tell apart: an object the name selector
\* rejects, the same object in an error event, and one without metadata.
MCObject ==
    {[Type |-> "t", Name |-> "b", Namespace |-> "", error |-> FALSE, meta |-> TRUE],
     [Type |-> "t", Name |-> "b", Namespace |-> "", error |-> TRUE, meta |-> TRUE],
     [Type |-> "t", Name |-> "", Namespace |-> "", error |-> FALSE, meta |-> FALSE]}

MCOneObject ==
    {[Type |-> "t", Name |-> "a", Namespace |-> "", error |-> FALSE, meta |-> TRUE]}
=============================================================================
