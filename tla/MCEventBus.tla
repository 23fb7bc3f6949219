----------------------------- MODULE MCEventBus ------------------------------
(* Two slots, so that a fan-out has a first and a second partition, and    *)
(* two clients.  The runs differ in who calls what:                        *)
(*   delivery   c1 sets the bus up; it and both handlers publish           *)
(*   lifecycle  c1 changes the registry, both start, c2 stops and          *)
(*              publishes, as do the handlers                              *)
(*   reentry    handlers subscribe while c1 starts and stops the bus       *)
EXTENDS EventBus

CONSTANTS c1, c2

Using(first, second, handler) ==
  [t \in Threads |-> IF t = c1 THEN first ELSE IF t = c2 THEN second ELSE handler]

DeliveryUses == Using({"subscribe", "start", "publish"}, {}, {"publish"})
LifecycleUses == Using({"subscribe", "unsubscribe", "start"},
                       {"stop", "start", "publish"}, {"publish"})
ReentryUses == Using({"subscribe", "start", "stop"}, {"publish"}, {"subscribe"})
=============================================================================
