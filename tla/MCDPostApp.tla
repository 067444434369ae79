----------------------------- MODULE MCDPostApp -----------------------------
(* Instances of DPostApp for TLC. *)
EXTENDS DPostApp

Raising == {"source", "event", "context", "engine", "emit", "hook"}

\* A continuous run that polls the watch directory.
Polling == [mode |-> "continuous", stream |-> None, regresses |-> FALSE, faults |-> Raising]

\* A oneshot run over a one-time event source that repeats an event id.
Repeating == [Polling EXCEPT !.mode = "oneshot", !.stream = <<1, 2, 1>>]

\* The same with interrupts and a wall clock that is set back.
Disturbed(r) == [r EXCEPT !.regresses = TRUE, !.faults = Raising \cup {"interrupt"}]

AllRuns == {Polling, Repeating, Disturbed(Polling), Disturbed(Repeating)}

\* The adapters composition releases, in the order of shutdown_all.
AdapterHooks == <<"ui", "record_store">>
=============================================================================
