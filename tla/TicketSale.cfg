\* The four sellers of the program, ten tickets.
CONSTANTS
  t1 = t1  t2 = t2  t3 = t3  t4 = t4
  Sellers = {t1, t2, t3, t4}
  Total = 10
  NoThread = NoThread
SPECIFICATION FairSpec
INVARIANTS SoldAboveCounter SoldOutAtEnd IInv
PROPERTY SaleEnds
