SPECIFICATION Spec
PROPERTIES NoCellErrorAfterStop
