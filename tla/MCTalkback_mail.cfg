CONSTANTS
  Msg = {m1, m2, m3}
  Request = {r1, r2, r3}
  NoMsg = NoMsg
  NoEntry = NoEntry
  Nobody = Nobody
SPECIFICATION Spec
SYMMETRY Symmetry
INVARIANTS
  TypeOK
  OneAnswerPerAsk
  HandedOnce
  WaitersCounted
  RoutedWasDelivered
PROPERTIES
  
  ImplementsMailbox
