SPECIFICATION Spec
CONSTANTS
  b1 = b1
  b2 = b2
  r1 = r1
  r2 = r2
  s = s
  a1 = a1
  a2 = a2
  Blocks <- MCBlocks
  Resources <- MCResources
  Singles <- MCSingles
  Arrays <- MCArrays
  Null = Null
  MaxCount = 2
  MaxDepth = 2
  ByteBits = 2
  WordBytes = 2
  HasBswap128 = FALSE
  AddrTypes <- MCAddrTypes
  NumBytes <- MCNumBytes
  StrLen <- MCStrLen
  NoAddr = NoAddr
  PortBytes = 2
  PortDigits = 2
  BufRoom = 3
  Numbers <- MCNumbers
  PortNumbers = {1, 4}
  NoText = NoText
INVARIANTS
  TypeOK
  OneOwner
  LifetimesRespected
  BooksBalance
  PeersSameNetwork
  PeersTextTakenBack
  PeersOrderTotal
