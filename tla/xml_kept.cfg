SPECIFICATION DocSpec
CONSTANTS
  Names = {"ReoccurenceStartStop"}
  MaxItems = 2
INVARIANTS XmlKept
