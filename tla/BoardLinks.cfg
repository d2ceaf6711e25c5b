SPECIFICATION LinksSpec
CONSTANTS
  Programs = {"bytes", "frames"}
  Size <- MCSize
  LineMax <- MCLineMax
  Chunk <- MCChunk
  BleLines <- MCBleLines
  UsbLines <- MCUsbLines
  Active = {0, 1}
  Flaky = {1}
  RxBuffers = 1
  FilterSlots = 6
  Timeout = 2
  ReinitPeriod = 1
  Sessions <- MCSessions
INVARIANTS LossIsContained FiltersFollow
PROPERTIES ImplementsQueue WaitingBytesAreTaken HearingReturns
