----------------------------- MODULE MCTriggers -----------------------------
(* Model checking of Triggers: two tickers over the schedules of two       *)
(* workflows, one with a deployment; or three deliveries of one event.     *)
EXTENDS Triggers

CONSTANTS t1, t2, p1, test, first, repeat, key1

Deploys == [d \in {p1} |-> 2]
SameKey == [d \in {test, first, repeat} |-> key1]

ScheduleLoad == [scheduled |-> {1, p1}, incoming |-> {}]
FirstAndRepeat == [scheduled |-> {}, incoming |-> {first, repeat}]
WithTest == [scheduled |-> {}, incoming |-> {test, first}]

BothLoads == {ScheduleLoad, FirstAndRepeat, WithTest}
WebhookLoads == {WithTest}

=============================================================================
