SPECIFICATION Spec
CONSTANTS
 Maps <- MCMaps
 TestedMaps <- MCTested
 ExtKb <- MCExtKb
 PAGE=2
 RES_START=4
 RES_END=8
 E820MAX=3
 ADDR_SPACE=24
 tseq <- MCTseq
 Faults <- MCFaults
 WPP=16
 SPINSZ=32
 WIN_SZ=9
 Win0Start=4
 Win1End=5
 USB_WORD=4
 BITS=4
 BYTE=2
 MOD_SZ=3
 BLOCK=4
 ALIGN=8
 BANK=16
 c_iter=1
CHECK_DEADLOCK FALSE
INVARIANT MapExact
INVARIANT VerdictExact
INVARIANT CoversMemory
INVARIANT ProgressExact
