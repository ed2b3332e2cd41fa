\* The same through fifo->lock, with longer calls.
CONSTANTS
  Data = {0, 1}
  Modulus = 8
  Sizes = {1, 2, 3}
  MaxLen = 5
SPECIFICATION LockedSpec
PROPERTY ResettableQueueSpec
