CONSTANTS
  Clients = {c1, c2}
  Pages = {p1, p2}
  None = None
  MaxIOs = 2
  Layers = {"bio", "hctx"}
  Cookies = {{}, {"POLLED_IO"}, {"IO_IS_COMPLETE"}, {"POLLED_IO", "IO_IS_COMPLETE"}}
SPECIFICATION FairSpec
INVARIANTS MQInv IssuedOnce
PROPERTY SubmissionNoticed
CHECK_DEADLOCK FALSE
