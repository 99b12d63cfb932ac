SPECIFICATION TSpec
CONSTANTS
  BlockSize = 2
  Huge = 100
  NInodes = 3
  Dentries <- ImgDentries
  Inodes <- ImgInodes
  Blocks <- ImgBlocks
  Magic <- ImgMagic
  NumFds = 4
  Shell = "sh"
  Tester = "t"
  OpenNames = {".", "a", "rtc"}
  RunNames = {"sh", "t", "."}
  Args = {"", "x"}
  Counts <- ImgCounts
  MaxArg = 1
  Terminals = 2
  Quiet = {"sh", "t"}
  MaxBusy = 1
  MaxDepth = 4
INVARIANTS TypeOK ShellTableKept TestsPass
PROPERTIES ImplementsStreams
