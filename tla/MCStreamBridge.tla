-------------------------- MODULE MCStreamBridge ---------------------------
(***************************************************************************)
(* TLC instances of StreamBridge.                                          *)
(***************************************************************************)
EXTENDS StreamBridge, TLC

Symmetry == Permutations(Acker)

NoFaults == {}
AllFaults == Calls \X {"error", "lost"}
\* Transient failures of everything but the delivery of a forwarded event,
\* and a terminal commit that is reported as failed.
RecoverableFaults ==
  {<<"flush", "error">>, <<"terminalDelivery", "error">>, <<"finish", "error">>,
   <<"finish", "lost">>, <<"fail", "error">>, <<"fail", "lost">>,
   <<"ack", "error">>, <<"ack", "lost">>}
DeliveryFaults == {<<"deliver", "error">>}
=============================================================================
