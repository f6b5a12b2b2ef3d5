SPECIFICATION Spec
CONSTANTS
 DATABUF = 3
 NOMAP_PRINT_DELAY = 2
 NOMAP_PRINT_COUNT = 1
 MAXFAULTS = 2
 BLOCK = 2
 BLOCKS = 1
 PXERetry = 1
 MAXREDIR = 1
 TRIES = 2
 Replies <- MCReplies
 Modules = {"menu", "libutil", "libcom32"}
 Resident <- MCResident
 Disks <- MCDisks
 MENU_ROWS = 2
 CLK_TCK = 2
 MenuConfigs <- MCMenuConfigs
 MAXKEYS = 3
 Names <- MCNames
INVARIANT FilesExact
INVARIANT ConfigExact
INVARIANT LoadInv
INVARIANT MenuInv
INVARIANT RunsChosen
PROPERTY BootProceeds
