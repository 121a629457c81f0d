------------------------- MODULE RepositoryMachines -------------------------
(***************************************************************************)
(* Machines of the repository's tests and examples, as the parser sees     *)
(* them, for the model checker.  One tick stands for 50 milliseconds in    *)
(* IntegrationFsm and TimeoutChainFsm.                                     *)
(***************************************************************************)
EXTENDS Integers, Sequences

On(event, sources, kind, targets, timeout) ==
    [event |-> event, is_timeout_handler |-> FALSE, source_states |-> sources,
     return_states |-> targets, return_kind |-> kind, timeout |-> timeout]

OnTimeout(kind, targets, timeout) ==
    [event |-> "none", is_timeout_handler |-> TRUE, source_states |-> {},
     return_states |-> targets, return_kind |-> kind, timeout |-> timeout]

\* tests/test_fsm_integration.rs: IntegrationFsm
IntegrationStates == {"Idle", "Pending", "Active", "Done", "Failed"}
IntegrationEvents == {"Start", "Process", "Finish"}
IntegrationHandlers ==
    <<On("Start", {"Idle"}, "Transition", {"Pending"}, 2),
      On("Process", {"Pending", "Active"}, "Transition", {"Active"}, 2),
      On("Finish", {"Active"}, "Transition", {"Done"}, -1),
      OnTimeout("Transition", {"Failed"}, -1)>>

\* tests/test_result_and_timeout.rs: TimeoutChainFsm
ChainStates == {"Idle", "Pending", "Cooling", "Failed"}
ChainEvents == {"Start", "PrimeCooling"}
ChainHandlers ==
    <<On("Start", {"Idle"}, "Transition", {"Pending"}, 2),
      On("PrimeCooling", {"Idle"}, "Transition", {"Cooling"}, 1),
      OnTimeout("ResultTransition", {"Failed", "Cooling"}, -1)>>

\* tests/test_result_and_timeout.rs: ErrorPropagationFsm
ErrorStates == {"Idle", "Running"}
ErrorEvents == {"Start"}
ErrorHandlers == <<On("Start", {"Idle"}, "ResultError", {"Running"}, -1)>>

\* README.md: MyFsm
MyStates == {"Idle", "Running"}
MyEvents == {"Start", "Stop"}
MyHandlers ==
    <<On("Start", {"Idle"}, "Transition", {"Running"}, -1),
      On("Stop", {"Running"}, "Transition", {"Idle"}, -1)>>

\* examples/worker.rs: WorkerFsm.  The timeout of handle_job covers both states
\* of its Result, so Failed is armed too and on_timeout re-enters it.
WorkerStates == {"Idle", "Working", "Failed"}
WorkerEvents == {"Job", "Done"}
WorkerHandlers ==
    <<On("Job", {"Idle"}, "ResultTransition", {"Working", "Failed"}, 1),
      On("Done", {"Working"}, "Transition", {"Idle"}, -1),
      OnTimeout("Transition", {"Failed"}, -1)>>
=============================================================================
