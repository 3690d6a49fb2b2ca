SPECIFICATION BufferSpec
CONSTANTS
  Zero = 0
  Observations = {0, 1, 2, 3}
  BufferSize = 4
INVARIANT ReadersAgree
PROPERTY WindowSpec
