\* Arrays of up to five numbers, grids of up to six cells, graphs
\* of up to five nodes, texts of up to four letters, brackets nested twice.
CONSTANTS
  Numbers = {1, 2, 3}
  MaxLen = 5
  MaxDays = 3
  GridSizes <- MCGridSizes
  Nodes = {3, 4, 5}
  Letters = {a, b}
  Texts = 4
  Depth = 2
SPECIFICATION Spec
INVARIANT
  AnswersMatch
