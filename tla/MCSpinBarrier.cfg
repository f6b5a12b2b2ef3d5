SPECIFICATION FairSpec
CONSTANT CPU = {c1, c2, c3, c4}
INVARIANT TypeOK
INVARIANT BarrierInv
PROPERTY ImplementsBarrier
PROPERTY EveryCallReturns
