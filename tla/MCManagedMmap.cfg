\* Three objects of two types, three addresses that are reused, two sizes, of
\* which the smaller is too small for a layout.
CONSTANTS
  o1 = o1
  o2 = o2
  o3 = o3
  a1 = a1
  a2 = a2
  a3 = a3
  Header = Header
  Layout = Layout
  nullptr = nullptr
  Object <- MCObject
  Type <- MCType
  sizeof <- MCSizeof
  Address <- MCAddress
  Size = {1, 2}
SPECIFICATION Spec
INVARIANTS
  HoldsWhatIsMapped
  OneHolder
  NothingLeaks
