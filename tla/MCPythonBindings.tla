-------------------------- MODULE MCPythonBindings ---------------------------
(* Two Python threads and the handlers make every call that may block; the *)
(* handlers leave the lifecycle alone, which is a deadlock without Python. *)
EXTENDS PythonBindings

CONSTANTS c1, c2

Using(first, second, handler) ==
  [t \in Clients \cup {Worker} |-> IF t = c1 THEN first ELSE IF t = c2 THEN second ELSE handler]

AllUses == Using({"publish", "subscribe", "start", "stop", "pending"},
                 {"publish", "schedule", "halt", "resume", "start"},
                 {"publish", "pending", "schedule"})
ReentryUses == Using({"start"}, {"publish", "schedule"}, {"schedule"})
=============================================================================
