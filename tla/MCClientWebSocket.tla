-------------------------- MODULE MCClientWebSocket --------------------------
(* Two tasks that receive and close: cancellable anywhere but without a      *)
(* heartbeat, or with a heartbeat; and one cancellable task with a heartbeat. *)
EXTENDS ClientWebSocket

SomeTask == CHOOSE t \in Tasks : TRUE

SomeUses ==
  [autoclose : BOOLEAN, heartbeat : {FALSE}, callers : {Tasks}, cancellable : {Tasks}]
  \cup [autoclose : BOOLEAN, heartbeat : {TRUE}, callers : {{SomeTask}}, cancellable : {{SomeTask}}]
  \cup [autoclose : {TRUE}, heartbeat : {TRUE}, callers : {Tasks}, cancellable : {{}}]
=============================================================================
