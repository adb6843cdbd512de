CONSTANTS
  \* Two bytes in a page: an address has 7 bits, of which 3 select the card.
  PAGE_SIZE = 2
  BootImage <- SmallBoot
  MonitorImage <- SmallMonitor
  \* Two in the boot ROM; after it; the second 2k, where a configuration has
  \* no card; RAM and the same place of the next card; ROM or RAM.
  Visited = {0, 1, 2, 17, 40, 56, 112, 115}
  Written = {1, 17, 40, 115}
  WrittenBytes = {5, 9}
  Files <- SmallFiles
  \* Files are shorter than it, as long, and longer.
  AddressSpan = 4
  Disks <- SmallDisks
  tracks = 1
  sectors = 2
  sector_size = 2
SPECIFICATION MachineSpec
INVARIANTS OneCardAnswers ListsWhatIsFetched ChecksumOfWhatIsRead
PROPERTY ImplementsFlatMemory
\* The listing and the I/O cycle end.
CHECK_DEADLOCK FALSE
