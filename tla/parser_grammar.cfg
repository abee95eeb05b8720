SPECIFICATION ParseSpec
CONSTANT MaxLen = 3
INVARIANT AcceptsGrammar
CHECK_DEADLOCK FALSE
