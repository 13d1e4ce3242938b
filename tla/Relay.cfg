SPECIFICATION FairSpec
CONSTANTS
  Hops = 2
  Window = 1
  MaxSend = 3
INVARIANT TypeOK
 
PROPERTY SentArrives
 
