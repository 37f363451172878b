-------------------------- MODULE MCOutboxSchedule --------------------------
EXTENDS OutboxSchedule

(* The first jobs are the hopeless ones: the worst case for the others. *)
const_Hopeless == {1, 2}
ASSUME InstanceIsFair == TurnsSuffice
=============================================================================
