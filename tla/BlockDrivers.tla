---------------------------- MODULE BlockDrivers ----------------------------
(***************************************************************************)
(* The drivers that bring an I/O to a block device.  A device is driven by *)
(* one of them at a time: the MQ driver or the older request_layer driver, *)
(* which issue requests to a hardware queue themselves (BlkMQ); the older  *)
(* bio_layer driver (BioLayer), which answers on the netlink family the    *)
(* others use; or SPDK (SpdkDriver), which takes the device away from the  *)
(* kernel.                                                                 *)
(***************************************************************************)
EXTENDS BlkMQ, BioLayer, SpdkDriver

vars == <<mqvars, biovars, spdkvars>>

Init ==
    /\ driver \in {"mq_driver", "request_layer", "bio_layer", "spdk"}
    /\ MQInit /\ BioInit /\ SpdkInit
    /\ driver # "spdk" => max_qps = 1 /\ ~zns
    /\ driver \notin {"mq_driver", "request_layer"} => ~elevator /\ ~tag_shared

RequestDriver ==
    /\ driver \in {"mq_driver", "request_layer"}
    /\ MQNext
    /\ UNCHANGED <<biovars, spdkvars>>

BioDriver ==
    /\ driver = "bio_layer"
    /\ BioNext
    /\ UNCHANGED <<mqvars, spdkvars>>

UserDriver ==
    /\ driver = "spdk"
    /\ SpdkNext
    /\ UNCHANGED <<mqvars, biovars>>

Next == RequestDriver \/ BioDriver \/ UserDriver

\* The actions of the drivers that are not loaded are disabled.
Fairness == MQFairness /\ BioFairness /\ SpdkFairness

Spec == Init /\ [][Next]_vars /\ Fairness

\* Whatever the driver, what was begun comes to an end: a request issued to a
\* hardware queue is ended, a netlink message's handler returns, and a Wait on
\* an SPDK queue returns.
DriversFinish ==
    /\ RequestsEnd
    /\ HandlersReturn
    /\ SpdkWaitReturns
=============================================================================
