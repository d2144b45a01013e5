SPECIFICATION Spec
CHECK_DEADLOCK FALSE
INVARIANTS  NumbersExact PiecesRejoin StoresReadBack MarkupReadsBack JsonReadsBack CallsAnswer
