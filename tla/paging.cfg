SPECIFICATION Spec
CONSTANTS
  Threads = {t1, t2}
  Fault = Fault
  Index = {0, 1}
  MaxTables = 7
  BootMaps <- KernelMaps
  HhdmPages <- OneAcpi
  DevicePages <- OneDevice
  DeviceFlags <- NotCached
  HeapPages <- OneHeap
  ImagePages <- OneImage
  Frame <- FrameOf
  ImageFrames <- OneImageFrame
  OffsetFlags <- OffsetBits
  kernelFrame = kernelFrame
  acpiFrame = acpiFrame
  deviceFrame = deviceFrame
  heapFrame = heapFrame
  loadFrame = loadFrame
INVARIANTS TypeOK TlbCoherent
PROPERTIES ImplementsPageMap
SYMMETRY Symmetry
CHECK_DEADLOCK FALSE
