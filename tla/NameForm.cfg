CONSTANT MaxRunes = 3
SPECIFICATION NameSpec
INVARIANT AcceptedIsNormal
CHECK_DEADLOCK FALSE
