\* Calls of one writer, one after the other, failing anywhere but in the restoring rename.
SPECIFICATION Spec
CONSTANTS
  w1 = w1
  w2 = w2
  Writers <- OneWriter
  Faults = {"stage", "rename"}
  MaxWrites = 8
PROPERTIES
  ImplementsAtomicEntity
