SPECIFICATION Spec
CONSTANTS
  Names = {"mysql-read"}
  Sizes = {{1}, {3}}
  FramePorts = {3306, 3308}
  Images = {"dataflow:next"}
CHECK_DEADLOCK FALSE
INVARIANTS
  RoutesToPods
  MountsProvided
  Governed
  NamesResolve
  DistinctObjects
PROPERTY EditsKeepImmutable
