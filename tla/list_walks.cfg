SPECIFICATION Spec
CONSTANTS
  i1 = i1  i2 = i2  i3 = i3  i4 = i4  i5 = i5
  Sorted <- FiveIds
  Numeric = {i1, i2, i3, i4, i5}
  Provider <- TwoProviders
  PageSizes = {0, 1, 2}
  None = None
INVARIANT TypeOK
  
