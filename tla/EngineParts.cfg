SPECIFICATION Spec
CHECK_DEADLOCK FALSE
INVARIANTS SessionsAreWhole AnswersAreTold
PROPERTIES NothingIsChangedAside CallsAndRunsEnd IndexCatchesUp
