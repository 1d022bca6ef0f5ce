CONSTANTS
  N = 3
  LineLen = 3
  Letter = {"x", "y"}
  MaxTyped = 5
SPECIFICATION InputSpec
INVARIANTS InputTypeOK CommandIsLine
PROPERTIES ImplementsQueue KeysTaken
