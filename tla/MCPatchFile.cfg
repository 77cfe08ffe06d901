\* Texts of up to three symbols sent, files of up to six: empty lines, newlines in the
\* new text, no final newline.  The largest int is 15 (5 bits), and line number 33 narrows to 1,
\* 31 to -1.
CONSTANTS
  Letter = {a, b}
  NL = NL
  Absent = Absent
  Junk = Junk
  Rejected = Rejected
  MaxInt = 15
  LineNumber = {0, 1, 2, 3, 4, 31, 33}
  MaxContent = 2
  MaxText = 6
SPECIFICATION Spec
INVARIANTS TypeOK OtherLinesKept FirstOccurrenceReplaced PatchedStaysReadable InsertThenDeleteRestores PagesMakeTheFile
