------------------------------- MODULE Lease --------------------------------
(***************************************************************************)
(* What scripts/lib/runtime-port-lock.ts promises for the startup leases   *)
(* of one host: a port is leased to one living process at a time, and a    *)
(* process that dies leaves nothing leased.                                *)
(***************************************************************************)
CONSTANTS Procs, Ports

VARIABLE holders   \* holders[k]: the living processes with the lease of port k

Init == holders = [k \in Ports |-> {}]

Acquire(p, k) ==
  /\ holders[k] = {}
  /\ holders' = [holders EXCEPT ![k] = {p}]

Release(p, k) == holders' = [holders EXCEPT ![k] = @ \ {p}]

Die(p) == holders' = [k \in Ports |-> holders[k] \ {p}]

Next ==
  \E p \in Procs :
    \/ \E k \in Ports : Acquire(p, k) \/ Release(p, k)
    \/ Die(p)

Spec == Init /\ [][Next]_holders

\* Two living processes never have the lease of one port.
Exclusive == \A k \in Ports : \A p, q \in holders[k] : p = q
=============================================================================
