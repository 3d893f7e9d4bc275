SPECIFICATION MCSpec
INVARIANTS TransfersTheLast
PROPERTIES HandoffCompletes DmaCompletes  BuffersReturned TdsComeBack
