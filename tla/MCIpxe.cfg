SPECIFICATION Spec
CONSTANTS
 PINGTIME=2
 SEQ_MOD=4
 MAXNET=2
 MAXCOPIES=2
 Devs <- MCDevs
 Net0={"net0"}
 LINKTIME=2
 MAXCT=2
 Setups <- MCSetups
 Statuses <- MCStatuses
 Names = {"net0", "net1", "bogus", "host"}
 Commands <- MCCommands
INVARIANT JobInv
INVARIANT PingExact
INVARIANT IfconfOutcome
INVARIANT ShellInv
INVARIANT NothingLeftOpen
PROPERTY WaitsEnd
