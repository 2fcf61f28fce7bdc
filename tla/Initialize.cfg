SPECIFICATION FairSpec
CONSTANTS
    t1 = t1  t2 = t2
    Object = Object  Base = Base  Left = Left  Leaf = Leaf
    f1 = f1
    None = None
    Threads = {t1, t2}
    Classes = {Object, Base, Left, Leaf}
    Funcs = {f1}
    Super <- Chain
    Sends <- ChainSends
    Trivial = {Object, Left}
    Throwing = {Base}
    MaxMessages = 2
INVARIANTS InitializeInv ReadyWhenDelivered SentOnceSuperFirst InitializersNeverWait
PROPERTIES MessagesReturn
