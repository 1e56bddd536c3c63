CONSTANTS
  Id <- MCId
  Backend = {"lancedb", "pgvector", "qdrant", "pinecone", "chroma"}
  BatchSize = 2
  Rows0 = 3
  MaxWrites = 3
  MaxWalks = 1
  Deleting = {"lancedb", "pgvector", "qdrant", "pinecone"}
  None = None
SPECIFICATION FairSpec
INVARIANTS TypeOK YieldsWhatItRead SnapshotIsOneInstant
PROPERTIES ContractKept WalkEnds
CHECK_DEADLOCK FALSE
