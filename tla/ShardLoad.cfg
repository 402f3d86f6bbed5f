SPECIFICATION Spec
CONSTANTS
  Builders = {"x", "y"}
  Shards = {"s"}
  Shard <- OneShard
  LastManifest = 3
INVARIANTS TypeOK LoadsOneManifest LoadsInOrder
