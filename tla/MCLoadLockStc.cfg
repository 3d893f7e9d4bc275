CONSTANTS
  c1 = c1  c2 = c2  d1 = d1  x1 = x1  x2 = x2  io = io
  CPU = {c1, c2}
  Device = {}
  Addr = {x1, x2}
  IoAddr = {}
  Val = {0, 1}
  Zero = 0
  line <- MCLine
  bucket <- MCBucket
  SeqMod = 2
SPECIFICATION Spec
INVARIANT StcSeesEveryStc
