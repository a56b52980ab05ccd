SPECIFICATION Spec
CONSTANTS
    blockA = blockA
    blockB = blockB
    Blocks = {blockA, blockB}
    Contents <- ThreeContents
    Files = {f1}
    Models = {m1}
    MaxHistory = 2
    Absent = Absent
    Damaged = Damaged
PROPERTY RevisionsAreAStack
