SPECIFICATION FairSpec
CONSTANTS
  Order = {o1}
  UserTopup = {o1}
  Task = {t1, t2}
CHECK_DEADLOCK FALSE
INVARIANTS
  TypeOK
  BooksMatchOrder
  CreditOnlyIfPaid
  ClosedOrdersTakeNoMoney
PROPERTY MoneyArrives
