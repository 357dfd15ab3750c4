------------------------ MODULE MCDeviceReconciler ------------------------
(* Model-checking instance of DeviceReconciler. *)
EXTENDS DeviceReconciler

MCManager == {"controllers", "nodeController"}

MCControllers == [controllers |-> <<"node", "app", "service">>, nodeController |-> <<"node">>]
=============================================================================
