CONSTANTS
  Pass = {p1, p2}
  Id = {r1}
  Pin = {pinA, pinB}
  Field = {owner, tag}
  Value = {v1}
  Backend = {"lancedb", "pgvector", "qdrant", "pinecone", "chroma"}
  MaxCalls = 3
  MaxWrites = 4
  None = None
SPECIFICATION Spec
INVARIANTS TypeOK MetadataKept AttachedIsStored
SYMMETRY Symmetry
CHECK_DEADLOCK FALSE
