SPECIFICATION Spec
\* The process may end.
CHECK_DEADLOCK FALSE
INVARIANT ContinuesWithoutUserService
