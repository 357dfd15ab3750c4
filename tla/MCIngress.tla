------------------------------ MODULE MCIngress ------------------------------
(* Model-checking instance of Ingress. *)
EXTENDS Ingress

Ing(class, host, path, service) ==
    [class |-> class, host |-> host, path |-> path, service |-> service]

\* Ingresses with a host, with another class and without either; two that
\* contradict each other and an invalid one; a Service that is not ready, with
\* and without a stamp of when it stopped being ready.
MCIngresses ==
    <<Ing("other", "", "/a", "s2"), Ing("kubemate", "h", "/b", "s1"), Ing("", "", "/a", "s1")>>

MCInitial ==
    {[ing |-> MCIngresses, ready |-> {"s1", "s2"}, stamp |-> 0],
     [ing |-> <<Ing("", "", "/a", "s1"), Ing("", "", "/b", "invalid"), Ing("", "", "/a", "s2")>>,
      ready |-> {"s1"}, stamp |-> 0]}

MCCluster ==
    MCInitial \cup {[ing |-> MCIngresses, ready |-> {"s2"}, stamp |-> 0],
                    [ing |-> MCIngresses, ready |-> {"s2"}, stamp |-> 1]}

MCRequest == {[host |-> "h", path |-> "/b"], [host |-> "", path |-> "/a"]}
=============================================================================
