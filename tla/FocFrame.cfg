CONSTANT InitReads = 12
SPECIFICATION Spec
INVARIANT FrameComplete
