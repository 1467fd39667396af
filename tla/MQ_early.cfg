CONSTANTS
  Clients = {c1}
  Pages = {p1}
  None = None
  MaxIOs = 1
  Layers = {"bio"}
  Cookies = {{}, {"POLLED_IO"}, {"IO_IS_COMPLETE"}, {"POLLED_IO", "IO_IS_COMPLETE"}}
SPECIFICATION Spec
INVARIANT AnsweredAfterIO
CHECK_DEADLOCK FALSE
