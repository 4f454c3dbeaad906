\* Two uploads, of one file or of two, and a download of either; buffers of
\* one chunk, so that a longer range is sent in parts.
\* Everything is sent at some time, or the process has died.
SPECIFICATION Spec
CONSTANTS
  u1 = u1
  u2 = u2
  d1 = d1
  f = f
  g = g
  Names <- MCNames
  Uploads <- MCUploads
  Downloads <- MCDownloads
  Ranges <- MCRanges
  Totals <- MCTotals
  Stray <- MCStray
  BufSize = 1
  Word = 16
SYMMETRY Symmetry
INVARIANTS
  UploadIsWhole
  WriterIsThere
  LengthIsKept
CHECK_DEADLOCK FALSE
