SPECIFICATION StartSpec
CONSTANTS
  Base = 4
  Magic <- MCMagic
  MaxIdLen = 2
  MaxAuthTagLen = 3
  BufferSize = 29
  Whitespace = {0}
  NotUtf8 = {3}
  Hash <- MCHash
  TagLen = 2
  NoKey = NoKey
  Malformed = Malformed
  Unset = Unset
  NoFile = NoFile
  Unreadable = Unreadable
  SocketAddr <- MCSocketAddr
  Places <- MCPlaces
  Peers <- MCPeers
  Sender <- MCSender
  Receiver <- MCReceiver
  Sequence <- MCSequence
INVARIANTS
  RoundTrip DecodesOnlyEncodings AgreementDecides FitsBuffer
  AcceptedConfigConverts  FilesDecide
CHECK_DEADLOCK FALSE
