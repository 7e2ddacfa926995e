SPECIFICATION BootSpec
CONSTANTS
  Maps <- MCMaps
  Kernels <- MCKernels
  RamEnd = 17
  BOOT_RAM_REGION_MAX = 4
  MEM_EXT_START = 9
  MEM_EBDA_START = 7
  MEM_PAGE_SIZE = 2
  UINT32 = 64
INVARIANTS  PagesAreRam 
CHECK_DEADLOCK FALSE
