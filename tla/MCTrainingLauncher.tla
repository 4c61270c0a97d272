------------------------- MODULE MCTrainingLauncher -------------------------
EXTENDS TrainingLauncher

\* SSH fails at any stage but the removal of the logs.
Unreliable == {"upload", "launch", "find", "pth", "onnx", "dlc"}
Reliable == {}
============================================================================
