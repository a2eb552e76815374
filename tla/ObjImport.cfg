SPECIFICATION Spec
CONSTANTS
  Faces <- MCFaces
  Names = {"a", "b", "c"}
  NumVertices = 4
  MtlFile <- MCMtlFile
  Pictures = {"t"}
  Word = 512
  MaxLines = 5
INVARIANTS
  ImportFaithful
  MaterialsFound
  BuffersFit
