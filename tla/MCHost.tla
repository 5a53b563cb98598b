------------------------------- MODULE MCHost -------------------------------
(* Model-checking instance of HostSession: sizes 1 and 2, where 1 fits the  *)
(* handshake and control bounds and 2 only a whole frame.                   *)
EXTENDS HostSession

Offer(frame, nested, inflight) ==
  [frame |-> frame, artifact |-> nested, request |-> nested, response |-> nested,
   inflight |-> inflight]

MCLocalLimits == Offer(2, 2, 2)
\* the local limits, a smaller semaphore, a frame below the request limit, zero
MCPeerLimits == {Offer(2, 2, 2), Offer(1, 2, 1), Offer(2, 2, 0)}
=============================================================================
