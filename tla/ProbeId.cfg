SPECIFICATION Spec
CONSTANTS
  Bytes = {{}, {0}, {1}, {2}, {3}, {4}, {5}, {6}, {7}}
  MaxLength = 3
  Numbers = {{}, {0, 3, 15, 16, 19, 31},
             {0, 1, 2, 3, 4, 5, 6, 7, 8, 9, 10, 11, 12, 13, 14, 15, 16,
              17, 18, 19, 20, 21, 22, 23, 24, 25, 26, 27, 28, 29, 30, 31}}
  Filters = {{}, {0}, {0, 1, 2, 3, 4, 5, 6, 7, 8, 9, 10, 11, 12, 13, 14, 15}}
INVARIANTS IdsAgree FieldsApart
PROPERTIES HashIsRemainder
