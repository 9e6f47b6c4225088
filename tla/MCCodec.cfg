\* Files that are saved and loaded again; ten parameters, two of them written, two frames of either protocol read in pieces of any length;
\* values told and told on in every encoding; descriptions of HomeMatic devices.
SPECIFICATION Spec
CONSTANTS
  Files <- MCAllFiles
  MaxSaves = 1
  MaxChannels = 2
  Description <- MCDescription
  Values <- MCValues
  Index <- MCIndex
  Contents <- MCContents
  MaxWrites = 2
  Payloads <- MCPayloads
  RpcHeaders <- MCRpcHeaders
  Keys <- MCKeys
  Opcodes = {1}
  MaxPiece = 28
  MaxMessages = 2
  SendAfter = 0
  Samples <- MCSamples
  RpcOptions <- MCRpcOptions
  MaxHops = 2
  HomeMaticFiles <- MCHomeMaticFiles
  TypeNumbers = {17, 258, 0}
  FirmwareVersions = {0, 1, 15, 16, 17, 18, 19, 255}
CHECK_DEADLOCK FALSE
INVARIANTS FramesArriveWhole WrittenIsRead SavedIsLoaded  ConvertedIsSame
