SPECIFICATION Spec
CONSTANTS
    Null = Null
    Half = Half
    Programs <- MCPrograms
    Requests = {Null, "gpu", "onnx", "tpu"}
    Compiled = {"cpu", "gpu", "onnx"}
    Present = {"cpu", "gpu", "onnx"}
    CacheSlots = 2
    Losses = {1, 2, 3}
    Outputs = {0, 1}
INVARIANTS SplitSound EarlyStopSound MetricsAreDefinitions SweepReportsWinner ServedAsTrained
PROPERTY PredictionsUseOwnModel
CHECK_DEADLOCK FALSE
