SPECIFICATION Spec
CONSTANT MaxDepth = 4
INVARIANTS AcceptsToml RefusesTheRest ScopesAgree
\* Reading stops at the end of the text and at the first error.
CHECK_DEADLOCK FALSE
