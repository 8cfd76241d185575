\* Every order of ClientHello, answers and ICE events, with up to four answers.
CONSTANTS
  f1 = f1  f2 = f2  f3 = f3  bad = bad
  Fp = {f1, f2, f3, bad}
  BadFp = {bad}
  NoSrtp = {f3}
  MaxAnswers = 4
  None = None
SPECIFICATION Spec
INVARIANT SrtpKeysCurrent
INVARIANT NoLostStart
INVARIANT ConnectedCarriesMedia
PROPERTY HandshakeEnds
CHECK_DEADLOCK FALSE
