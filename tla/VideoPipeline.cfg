SPECIFICATION Spec
CONSTANTS
  Handles = {h1, h2, h3}
  Formats = {f1, f2}
  Envs <- PipelineEnvs
  NONE = NONE
SYMMETRY Alike
INVARIANTS TypeOK StreamingAgrees BuffersFit BusyHasBuffers LastCloseDeletes
PROPERTY FlowSpec
