\* Ordinary years and leap years, and the two kinds of centuries.
SPECIFICATION Spec
CONSTANTS
    Years = {1900, 2000, 2023, 2024}
INVARIANTS
    TypeOK
    DueDateRight
PROPERTIES
    NoDueDateSkipped
\* The years explored come to an end.
CHECK_DEADLOCK FALSE
