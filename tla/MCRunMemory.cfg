SPECIFICATION Spec
CONSTANTS
  Programs = {p1, p2}
  Blocks = {b}
  Page = 4
  HeapPages = 8
  MallocAlign = 2
  Layouts <- MCLayouts
  BlockSizes = {1, 3}
  Free = Free
  None = None
INVARIANTS TypeOK SectionsFit LoadedIntact WritersDoNotFault
