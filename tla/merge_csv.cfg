CONSTANTS
  Bodies <- Responses
SPECIFICATION Spec
INVARIANTS TypeOK RowsKept OrderedTable ReadsBack
