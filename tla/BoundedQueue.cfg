CONSTANTS
  trades = trades
  quotesA = quotesA
  quotesB = quotesB
  TradeStreams = {trades}
  QuoteStreams = {quotesA, quotesB}
  Capacity = 3
  CriticalOverloadThreshold = 2
  MaxSequence = 3
SPECIFICATION FairSpec
INVARIANTS
  StreamsInOrder
  TradesAccountedFor
PROPERTIES
  SheddingKeepsFreshestTrades
  ImplementsEventBuffer
  BufferDrains
CHECK_DEADLOCK FALSE
