CONSTANT MaxCalls = 1
SPECIFICATION Spec
INVARIANT RedirectAsDocumented
CHECK_DEADLOCK FALSE
